---- MODULE Spec2Model ----
(***************************************************************************)
(* A model of PyPhil: the naming-convention scope (convention/core.py),    *)
(* the slot-based convention SBConvention / SBName (convention/sb.py),     *)
(* Namespace.join (pyphil/namespace.py) and Name.sanitize / Name.of        *)
(* (scripts/pyphil/name.py).                                               *)
(*                                                                         *)
(* A Python string is a sequence of one-character strings.  Python's None  *)
(* is the one-element sequence <<"None">>, and a Python int n is the       *)
(* sequence <<"#int">> followed by its decimal digits; neither can be      *)
(* confused with a string because their first element is not one          *)
(* character long.                                                         *)
(***************************************************************************)
EXTENDS Integers, Sequences, FiniteSets, TLC

VARIABLES
    current,      \* NamingConvention._current
    scopeNc,      \* NamingConventionScope._nc, per scope object
    scopePrev,    \* NamingConventionScope._prev, per scope object
    openStack,    \* history: the scopes entered and not yet exited, innermost last
    wellNested,   \* history: every enter/exit so far respected the LIFO discipline
    lastCall,     \* the last scope call and how it ended
    sbInput,      \* the arguments the slot-based pipeline started from
    sbObj,        \* the SBName object the pipeline currently holds (or None)
    sbPc,         \* how the object held was obtained
    sbRet,        \* the outcome of the last SB call
    sbX,          \* the string x = y.name() a round trip started from
    nsArgs,       \* the arguments of Namespace.join
    nsRet,        \* the outcome of Namespace.join
    nameArg,      \* the argument of Name.of, or the call of Name.join or Name.build
    nameRet,      \* the outcome of Name.of(...).str()
    nameHeap,     \* the Name objects created so far, Name.world first
    nameHandles,  \* the Name objects the calls are made on
    nameOut,      \* the last call of join or build or on a Name object and its outcome
    nameCalls,    \* how many calls were made on Name objects
    nsHeap,       \* the Namespace objects created so far, Namespace.root first
    nsCurrent,    \* what om.MNamespace.currentNamespace() returns
    nsHandles,    \* the Namespace objects the caller was given
    nsOut,        \* the last call on a Namespace object and its outcome
    nsCalls       \* how many calls were made

scopeVars == <<current, scopeNc, scopePrev, openStack, wellNested, lastCall>>
sbVars    == <<sbInput, sbObj, sbPc, sbRet, sbX>>
nsVars    == <<nsArgs, nsRet>>
nameVars  == <<nameArg, nameRet, nameHeap, nameHandles, nameOut, nameCalls>>
objVars   == <<nsHeap, nsCurrent, nsHandles, nsOut, nsCalls>>
vars      == <<scopeVars, sbVars, nsVars, nameVars, objVars>>

----------------------------------------------------------------------------
(* Python values and str methods                                           *)

None == <<"None">>

\* the outcome of a call not made yet
NotRun == [pending |-> TRUE]

UpperChars == <<"A","B","C","D","E","F","G","H","I","J","K","L","M",
                "N","O","P","Q","R","S","T","U","V","W","X","Y","Z">>

LowerChars == <<"a","b","c","d","e","f","g","h","i","j","k","l","m",
                "n","o","p","q","r","s","t","u","v","w","x","y","z">>

DigitChars == <<"0","1","2","3","4","5","6","7","8","9">>

Range(f) == {f[i] : i \in DOMAIN f}

UpperSet == Range(UpperChars)

LetterSet == Range(UpperChars) \cup Range(LowerChars)

DigitSet == Range(DigitChars)

IsLetter(c) == c \in LetterSet

IsDigit(c) == c \in DigitSet

\* the lowercase letter of each uppercase letter
LowerMap == [c \in UpperSet |-> LowerChars[CHOOSE i \in DOMAIN UpperChars : UpperChars[i] = c]]

LowerChar(c) == IF c \in UpperSet THEN LowerMap[c] ELSE c

Lower(s) == [i \in DOMAIN s |-> LowerChar(s[i])]

StartsWith(s, p) == Len(s) >= Len(p) /\ SubSeq(s, 1, Len(p)) = p

EndsWith(s, p) == Len(s) >= Len(p) /\ SubSeq(s, Len(s) - Len(p) + 1, Len(s)) = p

Contains(s, c) == \E i \in DOMAIN s : s[i] = c

\* the index of the first c in s, 0 when there is none
Find(s, c) == IF Contains(s, c) THEN CHOOSE i \in DOMAIN s : s[i] = c /\ \A j \in 1..(i-1) : s[j] # c ELSE 0

\* the index of the last c in s, 0 when there is none
RFind(s, c) == IF Contains(s, c) THEN CHOOSE i \in DOMAIN s : s[i] = c /\ \A j \in (i+1)..Len(s) : s[j] # c ELSE 0

\* s.split(sep, max) for a one-character sep; max < 0 means no limit
RECURSIVE SplitMax(_, _, _)
SplitMax(s, sep, max) ==
    IF max = 0 \/ ~Contains(s, sep)
    THEN <<s>>
    ELSE LET i == Find(s, sep)
         IN  <<SubSeq(s, 1, i - 1)>> \o SplitMax(SubSeq(s, i + 1, Len(s)), sep, max - 1)

Split(s, sep) == SplitMax(s, sep, -1)

\* s.rpartition(sep) for a one-character sep
RPartition(s, sep) ==
    LET i == RFind(s, sep)
    IN  IF i = 0 THEN << <<>>, <<>>, s >>
        ELSE << SubSeq(s, 1, i - 1), <<sep>>, SubSeq(s, i + 1, Len(s)) >>

\* sep.join(ls)
RECURSIVE JoinStr(_, _)
JoinStr(ls, sep) ==
    IF Len(ls) = 0 THEN <<>>
    ELSE IF Len(ls) = 1 THEN ls[1]
    ELSE ls[1] \o sep \o JoinStr(Tail(ls), sep)

\* the built-in str() on the values that occur: a string is returned as it is,
\* an int gives its digits
PyStr(v) == IF Len(v) > 0 /\ v[1] = "#int" THEN Tail(v) ELSE v

----------------------------------------------------------------------------
(* convention/core.py: NamingConvention._current and NamingConventionScope *)

NumScopes == 2

MaxDepth == 3

Scopes == 1..NumScopes

NoConvention == "NoConvention"

Conventions == {NoConvention, "SBConvention", "nc"}

Unset == "<unset>"

\* the last call made; outer is the convention that was active before the
\* outermost open scope was entered
NoCall == [op |-> "none", scope |-> 0, exc |-> "none", raised |-> "none", ret |-> "none",
           preStack |-> <<>>, preNested |-> TRUE, preCurrent |-> NoConvention,
           outer |-> NoConvention]

ScopeInit ==
    /\ current = NoConvention
    /\ scopeNc \in [Scopes -> Conventions]
    /\ scopePrev = [s \in Scopes |-> Unset]
    /\ openStack = <<>>
    /\ wellNested = TRUE
    /\ lastCall = NoCall

ScopeIdle ==
    /\ current = NoConvention
    /\ scopeNc = [s \in Scopes |-> NoConvention]
    /\ scopePrev = [s \in Scopes |-> Unset]
    /\ openStack = <<>>
    /\ wellNested = TRUE
    /\ lastCall = NoCall

\* NamingConvention.get()
Get == current

IsOpen(s) == \E i \in DOMAIN openStack : openStack[i] = s

Top == IF Len(openStack) = 0 THEN 0 ELSE openStack[Len(openStack)]

\* the stack without the last occurrence of s
RemoveLast(stk, s) ==
    LET i == RFind(stk, s)
    IN  IF i = 0 THEN stk ELSE SubSeq(stk, 1, i - 1) \o SubSeq(stk, i + 1, Len(stk))

\* the consistency check of __exit__
ExitRaises(s) == current # scopeNc[s]

\* the convention an exit that is not rejected makes current: self._prev
ExitTarget_Default(s) == NoConvention

ExitTarget(s) == scopePrev[s]

ExitReturn == "False"

\* NamingConventionScope.__enter__
Enter(s) ==
    /\ Len(openStack) < MaxDepth
    /\ scopePrev' = [scopePrev EXCEPT ![s] = current]
    /\ current' = scopeNc[s]
    /\ openStack' = Append(openStack, s)
    /\ wellNested' = (wellNested /\ ~IsOpen(s))
    /\ lastCall' = [op |-> "enter", scope |-> s, exc |-> "none", raised |-> "none", ret |-> "none",
                    preStack |-> openStack, preNested |-> wellNested, preCurrent |-> current,
                    outer |-> IF Len(openStack) = 0 THEN current ELSE lastCall.outer]
    /\ UNCHANGED scopeNc

\* __exit__ that installs self._prev although it rejects the call
Exit_RestoreOnReject(s, exc) ==
    /\ IF ExitRaises(s)
       THEN /\ lastCall' = [op |-> "exit", scope |-> s, exc |-> exc, raised |-> "RuntimeError",
                            ret |-> "none", preStack |-> openStack, preNested |-> wellNested,
                            preCurrent |-> current, outer |-> lastCall.outer]
            /\ current' = scopePrev[s]
            /\ UNCHANGED openStack
       ELSE IF scopePrev[s] = Unset
       THEN \* self._prev was never assigned
            /\ lastCall' = [op |-> "exit", scope |-> s, exc |-> exc, raised |-> "AttributeError",
                            ret |-> "none", preStack |-> openStack, preNested |-> wellNested,
                            preCurrent |-> current, outer |-> lastCall.outer]
            /\ UNCHANGED <<current, openStack>>
       ELSE /\ current' = ExitTarget(s)
            /\ lastCall' = [op |-> "exit", scope |-> s, exc |-> exc, raised |-> "none",
                            ret |-> ExitReturn, preStack |-> openStack, preNested |-> wellNested,
                            preCurrent |-> current, outer |-> lastCall.outer]
            /\ openStack' = RemoveLast(openStack, s)
    /\ wellNested' = (wellNested /\ Top = s)
    /\ UNCHANGED <<scopeNc, scopePrev>>

\* NamingConventionScope.__exit__(exc_type, exc_val, exc_tb); exc tells whether
\* the body of the with statement raised.  A call that raises leaves the scope
\* on the history stack; the history is well nested only while every exit is
\* called on the innermost open scope.
Exit(s, exc) ==
    /\ IF ExitRaises(s)
       THEN /\ lastCall' = [op |-> "exit", scope |-> s, exc |-> exc, raised |-> "RuntimeError",
                            ret |-> "none", preStack |-> openStack, preNested |-> wellNested,
                            preCurrent |-> current, outer |-> lastCall.outer]
            /\ UNCHANGED <<current, openStack>>
       ELSE IF scopePrev[s] = Unset
       THEN \* self._prev was never assigned
            /\ lastCall' = [op |-> "exit", scope |-> s, exc |-> exc, raised |-> "AttributeError",
                            ret |-> "none", preStack |-> openStack, preNested |-> wellNested,
                            preCurrent |-> current, outer |-> lastCall.outer]
            /\ UNCHANGED <<current, openStack>>
       ELSE /\ current' = ExitTarget(s)
            /\ lastCall' = [op |-> "exit", scope |-> s, exc |-> exc, raised |-> "none",
                            ret |-> ExitReturn, preStack |-> openStack, preNested |-> wellNested,
                            preCurrent |-> current, outer |-> lastCall.outer]
            /\ openStack' = RemoveLast(openStack, s)
    /\ wellNested' = (wellNested /\ Top = s)
    /\ UNCHANGED <<scopeNc, scopePrev>>

ScopeNext ==
    \/ \E s \in Scopes : Enter(s)
    \/ \E s \in Scopes, exc \in {"none", "RuntimeError"} : Exit(s, exc)

----------------------------------------------------------------------------
(* convention/sb.py: SBConvention and SBName                               *)

sides == {<<"R">>, <<"L">>, <<"C">>, <<"T">>, <<"B">>}

modules == {<<"a","r","m">>, <<"l","e","g">>, <<"s","p","i","n","e">>, <<"n","e","c","k">>,
            <<"h","e","a","d">>, <<"t","a","i","l">>, <<"h","a","n","d">>, <<"f","o","o","t">>}

types == {<<"b","l","s">>, <<"c","t","r","l">>, <<"F","K","_","c","t","r","l">>, <<"f","o","l">>,
          <<"g","e","o">>, <<"G","r","p">>, <<"I","K","_","c","t","r","l">>, <<"j","n","t">>,
          <<"m","s","h">>, <<"l","o","c">>, <<"p","i","n">>, <<"s","r","f">>}

_sides == {Lower(s) : s \in sides}

_modules == {Lower(m) : m \in modules}

_types == {Lower(t) : t \in types}

\* the lowercased types that contain '_', longest first; the two have the same
\* length and the order between them is the set's iteration order
_hardTypes == <<Lower(<<"I","K","_","c","t","r","l">>), Lower(<<"F","K","_","c","t","r","l">>)>>

ComponentNames == {"side", "module", "basename", "desc", "type"}

\* the absence of an SBName object
NoObject == [none |-> TRUE]

\* SBName.__init__
SBName(name, side, module, basename, desc, type) ==
    [decomposed |-> (name = None), name |-> name, side |-> side, module |-> module,
     basename |-> basename, desc |-> desc, type |-> type]

\* NamingConvention.isNoConvention: true of the no-op convention only
isNoConvention(convention) == convention = NoConvention

\* the constructor of UnknownComponentError, the components given as a list:
\* the convention, the components and whether the message ends with the hint
\* about a missing NamingConventionScope
UnknownComponentError(convention, components) ==
    [type |-> "UnknownComponentError", convention |-> convention, components |-> components,
     hint |-> isNoConvention(convention)]

NoError == [type |-> "none"]

ValueError == [type |-> "ValueError"]

IndexError == [type |-> "IndexError"]

\* the loop with the name compared as it is written, not lowercased
SplitHardType_CaseSensitive(name, i) ==
    LET p == RPartition(name, "_")
        hit == {j \in DOMAIN _hardTypes : EndsWith(name, _hardTypes[j])}
    IN  IF hit = {} THEN [return |-> FALSE, name |-> p[1], semi |-> p[2], type |-> p[3]]
        ELSE LET t == _hardTypes[CHOOSE j \in hit : TRUE]
                 before == Len(name) - Len(t)
             IN  IF Len(name) = Len(t)
                 THEN [return |-> TRUE, name |-> name, semi |-> <<>>, type |-> name]
                 ELSE IF name[before] = "_"
                 THEN [return |-> FALSE, name |-> SubSeq(name, 1, before - 1), semi |-> <<"_">>,
                       type |-> SubSeq(name, before + 1, Len(name))]
                 ELSE [return |-> FALSE, name |-> p[1], semi |-> p[2], type |-> p[3]]

\* the loop of _decompose over _hardTypes, from index i on: the name, the
\* delimiter and the type it splits off, and whether _decompose returns there
RECURSIVE SplitHardType(_, _)
SplitHardType(name, i) ==
    IF i > Len(_hardTypes)
    THEN \* the else clause of the for loop: no break happened
         LET p == RPartition(name, "_")
         IN  [return |-> FALSE, name |-> p[1], semi |-> p[2], type |-> p[3]]
    ELSE LET t == _hardTypes[i]
             before == Len(name) - Len(t)
         IN  IF EndsWith(Lower(name), t)
             THEN IF Len(name) = Len(t)
                  THEN [return |-> TRUE, name |-> name, semi |-> <<>>, type |-> name]
                  ELSE IF name[before] = "_"
                  THEN [return |-> FALSE, name |-> SubSeq(name, 1, before - 1), semi |-> <<"_">>,
                        type |-> SubSeq(name, before + 1, Len(name))]
                  ELSE SplitHardType(name, i + 1)
             ELSE SplitHardType(name, i + 1)

\* the split without its limit of three
Starts_NoLimit(name) == Split(name, "_")

\* name.split("_", 3) of the text that precedes the type
Starts(name) == SplitMax(name, "_", 3)

\* the type looked up among the sides
KeepType_Sides(type) == Lower(type) \in _sides

\* whether the <type> selection stands: it is a known type in some letter case
KeepType(type) == Lower(type) \in _types

\* the guesses with the first remaining segment alone as the description
BestEffortBasename_FirstDesc(obj, starts) ==
    IF Len(starts) > 1
    THEN [obj |-> [obj EXCEPT !.basename = starts[1], !.desc = starts[2]], err |-> NoError]
    ELSE [obj |-> [obj EXCEPT !.basename = starts[1]], err |-> NoError]

\* the pure guesses that end _decompose: the basename, and the description
\* when segments remain
BestEffortBasename(obj, starts) ==
    IF Len(starts) > 1
    THEN [obj |-> [obj EXCEPT !.basename = starts[1], !.desc = JoinStr(Tail(starts), <<"_">>)],
          err |-> NoError]
    ELSE [obj |-> [obj EXCEPT !.basename = starts[1]], err |-> NoError]

\* the check of a potential <module> value, and what follows it
BestEffortModule(obj, starts) ==
    IF Lower(starts[1]) \in _modules
    THEN IF Len(starts) = 1
         THEN [obj |-> [obj EXCEPT !.module = starts[1]], err |-> NoError]
         ELSE BestEffortBasename([obj EXCEPT !.module = starts[1]], Tail(starts))
    ELSE BestEffortBasename(obj, starts)

\* the best-effort assignment of the segments in starts: the check of a
\* potential <side> value, and what follows it
BestEffort(obj, starts) ==
    IF Len(starts) = 0 THEN [obj |-> obj, err |-> IndexError]
    ELSE IF Lower(starts[1]) \in _sides
    THEN IF Len(starts) = 1
         THEN [obj |-> [obj EXCEPT !.side = starts[1]], err |-> NoError]
         ELSE BestEffortModule([obj EXCEPT !.side = starts[1]], Tail(starts))
    ELSE BestEffortModule(obj, starts)

\* _decompose once the type is split off, the rest cut into starts: the fast
\* path, or the undoing of an invalid <type> selection and the best effort
AssignStarts(obj, semi, starts) ==
    IF Len(starts) >= 3
    THEN IF Len(starts) = 4
         THEN [obj |-> [obj EXCEPT !.side = starts[1], !.module = starts[2],
                                   !.basename = starts[3], !.desc = starts[4]],
               err |-> NoError]
         ELSE [obj |-> [obj EXCEPT !.side = starts[1], !.module = starts[2],
                                   !.basename = starts[3]],
               err |-> NoError]
    ELSE IF KeepType(obj.type)
    THEN IF semi = <<>> \/ Len(starts) = 0
         THEN [obj |-> obj, err |-> NoError]
         ELSE BestEffort(obj, starts)
    ELSE BestEffort([obj EXCEPT !.type = None],
                    Append(IF semi = <<>> THEN <<>> ELSE starts, obj.type))

\* _decompose after the loop over _hardTypes gave the split sp
AfterSplit(self, sp) ==
    IF sp.return
    THEN [obj |-> [self EXCEPT !.decomposed = TRUE, !.type = sp.type], err |-> NoError]
    ELSE AssignStarts([self EXCEPT !.decomposed = TRUE, !.type = sp.type], sp.semi, Starts(sp.name))

\* SBName._decompose: the object afterwards, and the error raised if any
SBName_decompose(self) == AfterSplit(self, SplitHardType(self.name, 1))

\* the lazy parsing every getter starts with
Parsed(self) ==
    IF self.decomposed THEN [obj |-> self, err |-> NoError] ELSE SBName_decompose(self)

\* the table mapping component names to getter methods
_componentDispatch(obj, component) ==
    CASE component = "side"     -> obj.side
      [] component = "module"   -> obj.module
      [] component = "basename" -> obj.basename
      [] component = "desc"     -> obj.desc
      [] component = "type"     -> obj.type

\* a getter once the name is parsed with outcome p
Getter(p, component) ==
    IF p.err # NoError THEN [obj |-> p.obj, val |-> None, err |-> p.err]
    ELSE [obj |-> p.obj, val |-> _componentDispatch(p.obj, component), err |-> NoError]

\* SBName.getComponent: the object afterwards, the value returned, the error raised
getComponent(self, component) ==
    IF component \notin ComponentNames
    THEN [obj |-> self, val |-> None, err |-> UnknownComponentError("SBConvention", <<component>>)]
    ELSE Getter(Parsed(self), component)

\* the components with the type put before the description
PresentComponents_TypeBeforeDesc(self) ==
    SelectSeq(<<self.side, self.module, self.basename, self.type, self.desc>>, LAMBDA v : v # None)

\* the components of a name in the order name() joins them
PresentComponents(self) ==
    SelectSeq(<<self.side, self.module, self.basename, self.desc, self.type>>, LAMBDA v : v # None)

\* SBName.name: the object afterwards (the name is cached) and the value returned
name(self) ==
    IF self.name = None
    THEN LET n == JoinStr(PresentComponents(self), <<"_">>)
         IN  [obj |-> [self EXCEPT !.name = n], val |-> n]
    ELSE [obj |-> self, val |-> self.name]

\* NameComposition._mayaNameRegex: ^[a-zA-Z_][a-zA-Z_0-9]*\Z
_mayaNameRegex(s) ==
    /\ Len(s) >= 1
    /\ IsLetter(s[1]) \/ s[1] = "_"
    /\ \A i \in 2..Len(s) : IsLetter(s[i]) \/ s[i] = "_" \/ IsDigit(s[i])

\* the checks of SBName.isValid on the basename and the description
BasenameValid(bn) == ~(bn = None \/ bn = <<>> \/ Contains(bn, "_"))

\* the description checked for emptiness only
DescValid_NonEmpty(desc) == desc # <<>>

DescValid(desc) ==
    IF desc # None
    THEN IF desc = <<>> THEN FALSE
         ELSE IF desc[1] = "_" \/ desc[Len(desc)] = "_" THEN FALSE
         ELSE TRUE
    ELSE TRUE

\* the checks of isValid on the components, the name parsed with outcome p
ComponentsValid(p) ==
    IF p.err # NoError THEN [obj |-> p.obj, val |-> FALSE, err |-> p.err]
    ELSE [obj |-> p.obj,
          val |-> /\ p.obj.side \in sides
                  /\ p.obj.module \in modules
                  /\ p.obj.type \in types
                  /\ BasenameValid(p.obj.basename)
                  /\ DescValid(p.obj.desc),
          err |-> NoError]

\* isValid once name() gave n
NameValid(n) ==
    IF ~_mayaNameRegex(n.val) THEN [obj |-> n.obj, val |-> FALSE, err |-> NoError]
    ELSE ComponentsValid(Parsed(n.obj))

\* SBName.isValid: the object afterwards, the value returned, the error raised
isValid(self) == NameValid(name(self))

\* compose with the required components checked before the unsupported ones
ComposeError_RequiredFirst(c) ==
    IF c.side = None THEN ValueError
    ELSE IF c.module = None THEN ValueError
    ELSE IF c.basename = None THEN ValueError
    ELSE IF c.type = None THEN ValueError
    ELSE IF Len(c.unsupported) > 0 THEN UnknownComponentError("SBConvention", c.unsupported)
    ELSE NoError

\* which of the errors of compose is raised first
ComposeError(c) ==
    IF Len(c.unsupported) > 0 THEN UnknownComponentError("SBConvention", c.unsupported)
    ELSE IF c.side = None THEN ValueError
    ELSE IF c.module = None THEN ValueError
    ELSE IF c.basename = None THEN ValueError
    ELSE IF c.type = None THEN ValueError
    ELSE NoError

\* SBConvention.compose: the SBName returned, or the error raised
compose(c) ==
    IF ComposeError(c) # NoError THEN [obj |-> NoObject, err |-> ComposeError(c)]
    ELSE [obj |-> SBName(None, PyStr(c.side), PyStr(c.module), PyStr(c.basename),
                         IF c.desc # None THEN PyStr(c.desc) ELSE c.desc, PyStr(c.type)),
          err |-> NoError]

\* SBConvention.decompose of a string (or of a value str() converts)
decompose(n) ==
    IF n = <<>> THEN [obj |-> NoObject, err |-> ValueError]
    ELSE [obj |-> SBName(PyStr(n), None, None, None, None, None), err |-> NoError]

\* the slot a replacement fills: the value of the receiver when the argument
\* is None, the argument as a string otherwise
Replaced(own, arg) == IF arg = None THEN own ELSE PyStr(arg)

\* the replacement that inherits no description
ReplaceWith_NoDesc(p, c) ==
    IF p.err # NoError THEN [obj |-> p.obj, new |-> NoObject, err |-> p.err]
    ELSE [obj |-> p.obj,
          new |-> SBName(None, Replaced(p.obj.side, c.side), Replaced(p.obj.module, c.module),
                         Replaced(p.obj.basename, c.basename), Replaced(None, c.desc),
                         Replaced(p.obj.type, c.type)),
          err |-> NoError]

\* the SBName that replace constructs, the receiver parsed with outcome p
ReplaceWith(p, c) ==
    IF p.err # NoError THEN [obj |-> p.obj, new |-> NoObject, err |-> p.err]
    ELSE [obj |-> p.obj,
          new |-> SBName(None, Replaced(p.obj.side, c.side), Replaced(p.obj.module, c.module),
                         Replaced(p.obj.basename, c.basename), Replaced(p.obj.desc, c.desc),
                         Replaced(p.obj.type, c.type)),
          err |-> NoError]

\* SBName.replace: the receiver afterwards, the SBName returned, the error raised
replace(self, c) ==
    IF Len(c.unsupported) > 0
    THEN [obj |-> self, new |-> NoObject, err |-> UnknownComponentError("SBConvention", c.unsupported)]
    ELSE ReplaceWith(Parsed(self), c)

----------------------------------------------------------------------------
(* convention/none.py: NoConvention and NoComposition, and the methods      *)
(* NoComposition inherits from NameComposition                              *)

NotImplementedError == [type |-> "NotImplementedError"]

\* NoComposition.__init__
NoComposition(n) == [name |-> n]

\* NoConvention.decompose: the NoComposition returned, or the error raised
NoConvention_decompose(n) ==
    IF PyStr(n) = <<>> THEN [obj |-> NoObject, err |-> ValueError]
    ELSE [obj |-> NoComposition(PyStr(n)), err |-> NoError]

\* NoComposition.name
NoComposition_name(self) == self.name

\* NoComposition.replace: the composition returned, or the error raised
NoComposition_replace(self, unsupported) ==
    IF Len(unsupported) = 0 THEN [obj |-> self, err |-> NoError]
    ELSE [obj |-> NoObject, err |-> UnknownComponentError(NoConvention, unsupported)]

\* NoComposition.get_component: the error raised
get_component(self, component) == UnknownComponentError(NoConvention, <<component>>)

\* NameComposition.getComponent, which NoComposition does not override: the
\* error raised
NameComposition_getComponent(self, component) == NotImplementedError

\* NameComposition.isValid, which NoComposition does not override
NameComposition_isValid(self) == _mayaNameRegex(NoComposition_name(self))

----------------------------------------------------------------------------
(* The calls made on SBConvention and on the SBName it returns             *)

MaxSegs == 4

SBTokens == {<<>>, <<"r">>, <<"a","r","m">>, <<"F","I","K">>, <<"c","t","r","l">>,
             <<"I","K","_","c","t","r","l">>, <<"F","I","K","_","F","I","K">>}

\* the strings made of at most MaxSegs tokens joined by '_'
SBStrings == {JoinStr(ws, <<"_">>) : ws \in UNION {[1..n -> SBTokens] : n \in 0..MaxSegs}}

SideValues == {None, <<"R">>, <<"r">>, <<"a","_","b">>, <<"#int","1">>}

ModuleValues == {None, <<"a","r","m">>, <<"x">>}

BasenameValues == {None, <<>>, <<"I","K">>, <<"x">>, <<"a","_","b">>, <<"^">>}

DescValues == {None, <<>>, <<"f","k">>, <<"x">>, <<"x","_","I","K">>, <<"_","x">>}

TypeValues == {None, <<"c","t","r","l">>, <<"I","K","_","c","t","r","l">>, <<"G","r","p">>, <<"x">>}

UnsupportedValues == {<<>>, <<"unknown">>}

SBComponentSets ==
    [side : SideValues, module : ModuleValues, basename : BasenameValues, desc : DescValues,
     type : TypeValues, unsupported : UnsupportedValues]

\* no components at all
NoComponents == [side |-> None, module |-> None, basename |-> None, desc |-> None, type |-> None,
                 unsupported |-> <<>>]

NoRet == [op |-> "none", arg |-> "none", val |-> None, err |-> NoError]

SBInit ==
    /\ sbInput \in [kind : {"string"}, s : SBStrings, c : {NoComponents}]
                   \cup [kind : {"components"}, s : {None}, c : SBComponentSets]
    /\ sbObj = NoObject
    /\ sbPc = "start"
    /\ sbRet = NoRet
    /\ sbX = None

SBIdle ==
    /\ sbInput = [kind |-> "string", s |-> <<>>, c |-> NoComponents]
    /\ sbObj = NoObject
    /\ sbPc = "start"
    /\ sbRet = NoRet
    /\ sbX = None

\* y = SBConvention.compose(**c)
SBCompose ==
    /\ sbPc = "start"
    /\ sbInput.kind = "components"
    /\ \E r \in {compose(sbInput.c)} :
           /\ sbObj' = r.obj
           /\ sbPc' = IF r.err = NoError THEN "composed" ELSE "compose_failed"
           /\ sbRet' = [op |-> "compose", arg |-> "none", val |-> None, err |-> r.err]
    /\ UNCHANGED <<sbInput, sbX>>

\* n = SBName(s)
SBConstruct ==
    /\ sbPc = "start"
    /\ sbInput.kind = "string"
    /\ sbObj' = SBName(sbInput.s, None, None, None, None, None)
    /\ sbPc' = "wrapped"
    /\ sbRet' = [op |-> "SBName", arg |-> "none", val |-> None, err |-> NoError]
    /\ UNCHANGED <<sbInput, sbX>>

\* n = SBConvention.decompose(s)
SBDecompose ==
    /\ sbPc = "start"
    /\ sbInput.kind = "string"
    /\ \E r \in {decompose(sbInput.s)} :
           /\ sbObj' = r.obj
           /\ sbPc' = IF r.err = NoError THEN "wrapped" ELSE "decompose_failed"
           /\ sbRet' = [op |-> "decompose", arg |-> "none", val |-> None, err |-> r.err]
    /\ UNCHANGED <<sbInput, sbX>>

\* n.getComponent(component)
SBGet(component) ==
    /\ sbObj # NoObject
    /\ \E r \in {getComponent(sbObj, component)} :
           /\ sbObj' = r.obj
           /\ sbRet' = [op |-> "getComponent", arg |-> component, val |-> r.val, err |-> r.err]
    /\ UNCHANGED <<sbInput, sbPc, sbX>>

\* n.name()
SBNameCall ==
    /\ sbObj # NoObject
    /\ \E r \in {name(sbObj)} :
           /\ sbObj' = r.obj
           /\ sbRet' = [op |-> "name", arg |-> "none", val |-> r.val, err |-> NoError]
    /\ UNCHANGED <<sbInput, sbPc, sbX>>

\* n.isValid()
SBIsValid ==
    /\ sbObj # NoObject
    /\ \E r \in {isValid(sbObj)} :
           /\ sbObj' = r.obj
           /\ sbRet' = [op |-> "isValid", arg |-> "none",
                        val |-> IF r.val THEN <<"True">> ELSE <<"False">>, err |-> r.err]
    /\ UNCHANGED <<sbInput, sbPc, sbX>>

\* SBConvention.decompose(x) of the string x = y.name() just returned by a
\* composition y that compose produced
SBRedecompose ==
    /\ sbPc = "composed"
    /\ sbRet.op = "name"
    /\ \E r \in {decompose(sbRet.val)} :
           /\ sbObj' = r.obj
           /\ sbPc' = IF r.err = NoError THEN "redecomposed" ELSE "decompose_failed"
           /\ sbRet' = [op |-> "decompose", arg |-> "none", val |-> None, err |-> r.err]
    /\ sbX' = sbRet.val
    /\ UNCHANGED sbInput

\* the components of an SBName read through its getters
ComponentsOf(p) ==
    [side |-> p.side, module |-> p.module, basename |-> p.basename, desc |-> p.desc,
     type |-> p.type, unsupported |-> <<>>]

Components(obj) == ComponentsOf(Parsed(obj).obj)

\* SBConvention.compose(side=n.side(), module=n.module(), basename=n.basename(),
\*                      desc=n.description(), type=n.type()) of the decomposed x
SBRecompose ==
    /\ sbPc = "redecomposed"
    /\ \E r \in {compose(Components(sbObj))} :
           /\ sbObj' = IF r.err = NoError THEN r.obj ELSE Parsed(sbObj).obj
           /\ sbPc' = IF r.err = NoError THEN "recomposed" ELSE "recompose_failed"
           /\ sbRet' = [op |-> "compose", arg |-> "none", val |-> None, err |-> r.err]
    /\ UNCHANGED <<sbInput, sbX>>

\* the arguments replace is called with
ReplaceArgs ==
    {NoComponents,
     [NoComponents EXCEPT !.desc = <<"x">>],
     [NoComponents EXCEPT !.side = <<"L">>, !.module = <<"l","e","g">>],
     [NoComponents EXCEPT !.basename = <<"#int","1">>, !.type = <<"G","r","p">>],
     [NoComponents EXCEPT !.side = <<"L">>, !.module = <<"l","e","g">>, !.basename = <<"#int","1">>,
                          !.desc = <<"x">>, !.type = <<"G","r","p">>],
     [NoComponents EXCEPT !.unsupported = <<"unknown">>],
     [NoComponents EXCEPT !.side = <<"L">>, !.unsupported = <<"unknown", "other">>]}

\* r = n.replace(**c) of the SBName n that SBName(s), decompose or compose
\* returned: n is kept, the call records n as it was and the SBName returned
SBReplace(c) ==
    /\ sbPc \in {"wrapped", "composed"}
    /\ \E r \in {replace(sbObj, c)} :
           /\ sbObj' = r.obj
           /\ sbRet' = [op |-> "replace", arg |-> "none", val |-> None, err |-> r.err,
                        components |-> c, self |-> sbObj, new |-> r.new]
    /\ UNCHANGED <<sbInput, sbPc, sbX>>

SBNext ==
    \/ SBCompose
    \/ SBConstruct
    \/ SBDecompose
    \/ \E component \in ComponentNames \cup {"unknown"} : SBGet(component)
    \/ SBNameCall
    \/ SBIsValid
    \/ SBRedecompose
    \/ SBRecompose
    \/ \E c \in ReplaceArgs : SBReplace(c)

----------------------------------------------------------------------------
(* The calls made on NoConvention and on the NoComposition it returns       *)

NoneInit ==
    /\ sbInput \in [kind : {"string"}, s : SBStrings, c : {NoComponents}]
    /\ sbObj = NoObject
    /\ sbPc = "start"
    /\ sbRet = NoRet
    /\ sbX = None

\* n = NoConvention.decompose(s)
NoDecompose ==
    /\ sbPc = "start"
    /\ \E r \in {NoConvention_decompose(sbInput.s)} :
           /\ sbObj' = r.obj
           /\ sbPc' = IF r.err = NoError THEN "wrapped" ELSE "decompose_failed"
           /\ sbRet' = [op |-> "decompose", arg |-> "none", val |-> None, err |-> r.err]
    /\ UNCHANGED <<sbInput, sbX>>

\* n.getComponent(component)
NoGetComponent(component) ==
    /\ sbPc = "wrapped"
    /\ sbRet' = [op |-> "getComponent", arg |-> component, val |-> None,
                 err |-> NameComposition_getComponent(sbObj, component)]
    /\ UNCHANGED <<sbInput, sbObj, sbPc, sbX>>

\* n.get_component(component)
NoGet_component(component) ==
    /\ sbPc = "wrapped"
    /\ sbRet' = [op |-> "get_component", arg |-> component, val |-> None,
                 err |-> get_component(sbObj, component)]
    /\ UNCHANGED <<sbInput, sbObj, sbPc, sbX>>

\* n.name()
NoName ==
    /\ sbPc = "wrapped"
    /\ sbRet' = [op |-> "name", arg |-> "none", val |-> NoComposition_name(sbObj), err |-> NoError]
    /\ UNCHANGED <<sbInput, sbObj, sbPc, sbX>>

\* n.isValid()
NoIsValid ==
    /\ sbPc = "wrapped"
    /\ sbRet' = [op |-> "isValid", arg |-> "none",
                 val |-> IF NameComposition_isValid(sbObj) THEN <<"True">> ELSE <<"False">>,
                 err |-> NoError]
    /\ UNCHANGED <<sbInput, sbObj, sbPc, sbX>>

\* n.replace(**unsupported): the composition returned is n itself or none
NoReplace(unsupported) ==
    /\ sbPc = "wrapped"
    /\ \E r \in {NoComposition_replace(sbObj, unsupported)} :
           sbRet' = [op |-> "replace", arg |-> "none", val |-> None, err |-> r.err,
                     components |-> unsupported, self |-> sbObj, new |-> r.obj]
    /\ UNCHANGED <<sbInput, sbObj, sbPc, sbX>>

NoneNext ==
    \/ NoDecompose
    \/ \E component \in ComponentNames \cup {"unknown"} : NoGetComponent(component)
    \/ \E component \in ComponentNames \cup {"unknown"} : NoGet_component(component)
    \/ NoName
    \/ NoIsValid
    \/ \E unsupported \in {<<>>, <<"test">>} : NoReplace(unsupported)

----------------------------------------------------------------------------
(* pyphil/namespace.py: Namespace.join                                     *)

\* an argument of join: a string, a Namespace (with the string its str()
\* returns) or a value of another type
StrPart(s) == [kind |-> "str", s |-> s]

NsPart(s) == [kind |-> "Namespace", s |-> s]

OtherPart == [kind |-> "int", s |-> <<"#int", "1">>]

\* the check without the test for a trailing ':'
_assert_validity_NoTrailing(ns) ==
    \/ Contains(ns, "|")
    \/ \E i \in 1..(Len(ns) - 1) : ns[i] = ":" /\ ns[i + 1] = ":"

\* _assert_validity: whether it raises ValueError
_assert_validity(ns) ==
    \/ Contains(ns, "|")
    \/ Len(ns) > 1 /\ (ns[Len(ns)] = ":" \/ \E i \in 1..(Len(ns) - 1) : ns[i] = ":" /\ ns[i + 1] = ":")

\* "".join(ls)
Concat(ls) == JoinStr(ls, <<>>)

\* a root part marks the result absolute at every position
MarksRoot_Anywhere(i) == TRUE

\* whether a root part at index i (from 1) makes the result absolute: i == 0
MarksRoot(i) == i = 1

\* the loop of join from argument i on, with the list ls and the flag root so far
RECURSIVE JoinLoop(_, _, _, _)
JoinLoop(namespaces, i, ls, root) ==
    IF i > Len(namespaces) THEN [err |-> NoError, ls |-> ls, root |-> root]
    ELSE LET a == namespaces[i]
         IN  IF a.kind = "str" /\ _assert_validity(a.s) THEN [err |-> ValueError, ls |-> ls, root |-> root]
             ELSE IF a.kind \notin {"str", "Namespace"} THEN [err |-> ValueError, ls |-> ls, root |-> root]
             ELSE LET ns == IF a.kind = "str" /\ a.s = <<>> THEN <<":">> ELSE a.s
                  IN  IF ns = <<":">>
                      THEN JoinLoop(namespaces, i + 1, ls, root \/ MarksRoot(i))
                      ELSE IF ~StartsWith(ns, <<":">>)
                      THEN JoinLoop(namespaces, i + 1, ls \o << <<":">>, ns >>, root)
                      ELSE JoinLoop(namespaces, i + 1, Append(ls, ns), root)

\* _new_ns(ns): a Namespace whose fields other than _ns are still to be computed
_new_ns(ns) == [ns |-> ns, isRootObject |-> FALSE]

\* Namespace.root
NamespaceRoot == [ns |-> <<":">>, isRootObject |-> TRUE]

\* Namespace.join: the Namespace returned, or the error raised
join(namespaces) ==
    IF Len(namespaces) = 0 THEN [err |-> ValueError, val |-> None]
    ELSE LET r == JoinLoop(namespaces, 1, <<>>, FALSE)
         IN  IF r.err # NoError THEN [err |-> r.err, val |-> None]
             ELSE IF Len(r.ls) = 0 THEN [err |-> NoError, val |-> NamespaceRoot]
             ELSE IF r.ls[1] = <<":">> /\ ~r.root
             THEN [err |-> NoError, val |-> _new_ns(Concat(Tail(r.ls)))]
             ELSE [err |-> NoError, val |-> _new_ns(Concat(r.ls))]

MaxParts == 3

NsStrings == {<<>>, <<":">>, <<"a">>, <<":","a">>, <<"a",":","b">>, <<":","b",":","c">>,
              <<"a","|","b">>, <<"a",":",":","b">>, <<"a",":">>}

\* the Namespaces passed to join: the root and two that a string was checked for
NsObjects == {<<":">>, <<"a">>, <<":","b",":","c">>}

NsParts == {StrPart(s) : s \in NsStrings} \cup {NsPart(s) : s \in NsObjects} \cup {OtherPart}

NsInit ==
    /\ nsArgs \in UNION {[1..n -> NsParts] : n \in 0..MaxParts}
    /\ nsRet = NotRun

NsIdle == nsArgs = <<>> /\ nsRet = NotRun

\* Namespace.join(*nsArgs)
NsJoin ==
    /\ nsRet = NotRun
    /\ nsRet' = join(nsArgs)
    /\ UNCHANGED nsArgs

NsNext == NsJoin

----------------------------------------------------------------------------
(* scripts/pyphil/name.py: Name.sanitize, Name.of, Name.str                *)

\* _emptyPattern.search(name) is not None: a '|' or ':' immediately followed
\* by '|' or the end of the string
_emptyPattern(s) ==
    \E i \in DOMAIN s : s[i] \in {"|", ":"} /\ (i = Len(s) \/ s[i + 1] = "|")

\* whether _rootNsPattern matches the character at index i of s: a ':' at
\* the beginning of the string, or a ':' after a '|' and followed by text free
\* of '|' and ':' up to the next '|' or the end
_rootNsPattern(s, i) ==
    /\ s[i] = ":"
    /\ \/ i = 1
       \/ /\ s[i - 1] = "|"
          /\ \E j \in i..Len(s) :
                /\ \A k \in (i + 1)..j : s[k] \notin {"|", ":"}
                /\ j = Len(s) \/ s[j + 1] = "|"

\* _rootNsPattern.sub(repl, string): string with every match replaced by repl
RECURSIVE SubFrom(_, _, _)
SubFrom(repl, string, i) ==
    IF i > Len(string) THEN <<>>
    ELSE (IF _rootNsPattern(string, i) THEN repl ELSE <<string[i]>>) \o SubFrom(repl, string, i + 1)

sub(repl, string) == SubFrom(repl, string, 1)

\* Name.sanitize: the string returned, or the error raised
sanitize(n) ==
    IF n = <<>> \/ _emptyPattern(n) THEN [err |-> ValueError, val |-> None]
    ELSE [err |-> NoError, val |-> sub(n, <<>>)]

\* Name.of of a string: the Name returned (its _name; nothing else is set),
\* or the error raised
of(n) ==
    LET r == sanitize(n)
    IN  IF r.err # NoError THEN [err |-> r.err, val |-> None]
        ELSE [err |-> NoError, val |-> [name |-> r.val]]

\* Name.str of a Name whose _name is set
str(self) == self.name

MaxNameLen == 5

NameChars == {"a", ":", "|"}

NameStrings == UNION {[1..n -> NameChars] : n \in 0..MaxNameLen}

NameInit ==
    /\ nameArg \in NameStrings
    /\ nameRet = NotRun
    /\ nameHeap = <<>>
    /\ nameHandles = {}
    /\ nameOut = NotRun
    /\ nameCalls = 0

NameIdle ==
    /\ nameArg = <<>>
    /\ nameRet = NotRun
    /\ nameHeap = <<>>
    /\ nameHandles = {}
    /\ nameOut = NotRun
    /\ nameCalls = 0

ObjIdle ==
    /\ nsHeap = <<>>
    /\ nsCurrent = <<":">>
    /\ nsHandles = {}
    /\ nsOut = NotRun
    /\ nsCalls = 0

\* Name.of(nameArg).str()
NameOfStr ==
    /\ nameRet = NotRun
    /\ LET r == of(nameArg)
       IN  nameRet' = IF r.err # NoError THEN [err |-> r.err, val |-> None]
                      ELSE [err |-> NoError, val |-> str(r.val)]
    /\ UNCHANGED <<nameArg, nameHeap, nameHandles, nameOut, nameCalls>>

NameNext == NameOfStr

----------------------------------------------------------------------------
(* pyphil/namespace.py: Namespace objects and their lazily computed fields *)
(*                                                                         *)
(* The objects live in a heap, a sequence of records; a reference is an    *)
(* index into it.  Where a Namespace is expected, 0 is Python's None and   *)
(* -1 is the placeholder of types.py.                                      *)

\* types.placeholder, where a Namespace or None is expected
placeholder == -1

\* None, where a Namespace is expected
NoneRef == 0

\* the reference of Namespace.root
Root == 1

\* types.placeholder, where a string is expected
placeholderStr == <<"#placeholder">>

AttributeError == [type |-> "AttributeError"]

\* Namespace.__init__: the fields of a new object
Namespace__init__(ns, root, end, parent, nm, depth) ==
    [ns |-> ns, root |-> root, end |-> end, parent |-> parent, name |-> nm, depth |-> depth]

\* Namespace.root as it is set up when the module is loaded
RootObject == Namespace__init__(<<":">>, Root, NoneRef, NoneRef, <<>>, 0)

\* the object _new_ns(ns) creates: every field but _ns is still to be computed
NewObject(ns) == Namespace__init__(ns, placeholder, placeholder, placeholder, placeholderStr, -1)

\* MetaNamespace.__call__: Namespace(ns) of a string, a Namespace or another
\* value; a Namespace is returned as it is
Namespace(arg) ==
    IF arg.kind = "str"
    THEN IF arg.s = <<>> THEN [err |-> NoError, val |-> NamespaceRoot]
         ELSE IF _assert_validity(arg.s) THEN [err |-> ValueError, val |-> None]
         ELSE [err |-> NoError, val |-> _new_ns(arg.s)]
    ELSE IF arg.kind = "Namespace" THEN [err |-> NoError, val |-> arg]
    ELSE [err |-> ValueError, val |-> None]

\* s.count(c)
Count(s, c) == Cardinality({i \in DOMAIN s : s[i] = c})

\* the characters of namespace names, in code point order
CharOrder == DigitChars \o UpperChars \o <<"_">> \o LowerChars

Ord == [c \in Range(CharOrder) |-> CHOOSE i \in DOMAIN CharOrder : CharOrder[i] = c]

\* s < t on Python strings
StrLess(s, t) ==
    \E k \in 0..Len(s) :
        /\ k <= Len(t)
        /\ \A i \in 1..k : s[i] = t[i]
        /\ \/ k = Len(s) /\ k < Len(t)
           \/ k < Len(s) /\ k < Len(t) /\ Ord[s[k + 1]] < Ord[t[k + 1]]

\* Namespace.is_root
is_root(h, i) == h[i].ns = <<":">>

SetNs(h, i, ns) == [heap |-> [h EXCEPT ![i].ns = ns], val |-> ns]

StrAfterParent(p, i) == SetNs(p.heap, i, p.val \o <<":">> \o p.heap[i].name)

\* Namespace.str: the heap afterwards and the string returned
RECURSIVE Namespace_str(_, _)
Namespace_str(h, i) ==
    IF h[i].ns # placeholderStr THEN [heap |-> h, val |-> h[i].ns]
    ELSE IF h[i].parent = NoneRef THEN SetNs(h, i, h[i].name)
    ELSE IF is_root(h, h[i].parent) THEN SetNs(h, i, <<":">> \o h[i].name)
    ELSE StrAfterParent(Namespace_str(h, h[i].parent), i)

IsAbsAfterStr(s) == [heap |-> s.heap, val |-> StartsWith(s.val, <<":">>)]

\* Namespace.is_abs
is_abs(h, i) == IsAbsAfterStr(Namespace_str(h, i))

\* _validNS.match(s) is not None.  The first alternative, ^:, accepts every
\* string that starts with ':'; the second wants an optional ':' and names
\* separated by single ':' up to the end of the string
ValidName(seg) ==
    /\ Len(seg) >= 1
    /\ IsLetter(seg[1])
    /\ \A k \in 2..Len(seg) : IsLetter(seg[k]) \/ seg[k] = "_" \/ IsDigit(seg[k])

ValidNames(s) == \A seg \in Range(Split(s, ":")) : ValidName(seg)

_validNS(s) ==
    \/ StartsWith(s, <<":">>)
    \/ ValidNames(s)
    \/ StartsWith(s, <<":">>) /\ ValidNames(Tail(s))

IsValidAfterStr(s) == [heap |-> s.heap, val |-> _validNS(s.val)]

\* Namespace.is_valid
is_valid(h, i) == IsValidAfterStr(Namespace_str(h, i))

\* the parent computed from parts = self._ns.rsplit(":", 1), given as the text
\* before the last ':', that ':' (or nothing) and the text after it
ParentFrom(h, i, parts) ==
    IF parts[2] = <<>>
    THEN [heap |-> [h EXCEPT ![i].parent = NoneRef, ![i].name = parts[3]], val |-> NoneRef]
    ELSE IF parts[1] = <<>>
    THEN [heap |-> [h EXCEPT ![i].parent = Root, ![i].name = parts[3]], val |-> Root]
    ELSE [heap |-> Append([h EXCEPT ![i].parent = Len(h) + 1, ![i].name = parts[3]],
                          Namespace__init__(parts[1], h[i].root, placeholder, placeholder,
                                            placeholderStr, h[i].depth - 1)),
          val |-> Len(h) + 1]

\* the parent taken at the first ':' instead of the last
Namespace_parent_FirstColon(h, i) ==
    IF h[i].parent # placeholder THEN [heap |-> h, val |-> h[i].parent]
    ELSE LET cs == {k \in DOMAIN h[i].ns : h[i].ns[k] = ":"}
             c == CHOOSE k \in cs : \A l \in cs : k <= l
         IN  IF cs = {} THEN ParentFrom(h, i, << <<>>, <<>>, h[i].ns >>)
             ELSE ParentFrom(h, i, <<SubSeq(h[i].ns, 1, c - 1), <<":">>,
                                     SubSeq(h[i].ns, c + 1, Len(h[i].ns))>>)

\* Namespace.parent
Namespace_parent(h, i) ==
    IF h[i].parent # placeholder THEN [heap |-> h, val |-> h[i].parent]
    ELSE ParentFrom(h, i, RPartition(h[i].ns, ":"))

NameAfterParent(p, i) == [heap |-> p.heap, val |-> p.heap[i].name]

\* Namespace.name
Namespace_name(h, i) ==
    IF h[i].name = placeholderStr THEN NameAfterParent(Namespace_parent(h, i), i)
    ELSE [heap |-> h, val |-> h[i].name]

SetDepth(h, i, d) == [heap |-> [h EXCEPT ![i].depth = d], val |-> d]

DepthAfterParent(p, i) == SetDepth(p.heap, i, p.val + 1)

\* Namespace.depth
RECURSIVE Namespace_depth(_, _)
Namespace_depth(h, i) ==
    IF h[i].depth >= 0 THEN [heap |-> h, val |-> h[i].depth]
    ELSE IF h[i].ns # placeholderStr THEN SetDepth(h, i, Count(h[i].ns, ":"))
    ELSE IF h[i].parent >= 1 THEN DepthAfterParent(Namespace_depth(h, h[i].parent), i)
    ELSE SetDepth(h, i, 0)

AppendSelf(r, i) == [heap |-> r.heap, val |-> Append(r.val, i)]

\* Namespace.hierarchy: a new list at every call
RECURSIVE Namespace_hierarchy(_, _)
RECURSIVE HierarchyAfterParent(_, _)
HierarchyAfterParent(p, i) ==
    IF p.val # NoneRef THEN AppendSelf(Namespace_hierarchy(p.heap, p.val), i)
    ELSE [heap |-> p.heap, val |-> <<i>>]

Namespace_hierarchy(h, i) == HierarchyAfterParent(Namespace_parent(h, i), i)

SplitAfterParent(p, i) ==
    IF p.val = NoneRef THEN [heap |-> p.heap, val |-> <<NoneRef, i>>]
    ELSE [heap |-> Append(p.heap, Namespace__init__(p.heap[i].name, Len(p.heap) + 1, NoneRef,
                                                    NoneRef, p.heap[i].name, 0)),
          val |-> <<p.val, Len(p.heap) + 1>>]

\* Namespace.split
Namespace_split(h, i) == SplitAfterParent(Namespace_parent(h, i), i)

ReturnRootEnd(h, i) == [heap |-> h, val |-> <<h[i].root, h[i].end>>]

\* split_root, lines 554-561: the root of a path whose first name is n
SetRoot(h, i, n) ==
    IF h[i].root # placeholder THEN h
    ELSE IF n = <<>> THEN [h EXCEPT ![i].root = Root]
    ELSE Append([h EXCEPT ![i].root = Len(h) + 1],
                Namespace__init__(n, h[i].root, NoneRef, NoneRef, n, 0))

\* split_root, lines 562-563: the end of a path that continues with e
SetEnd(h, i, e) ==
    IF e # <<>>
    THEN ReturnRootEnd(Append([h EXCEPT ![i].end = Len(h) + 1],
                              Namespace__init__(e, placeholder, placeholder, placeholder,
                                                placeholderStr, h[i].depth - 1)), i)
    ELSE ReturnRootEnd([h EXCEPT ![i].end = NoneRef], i)

SplitRootParts(h, i, parts) ==
    IF Len(parts) = 2 THEN SetEnd(SetRoot(h, i, parts[1]), i, parts[2])
    ELSE ReturnRootEnd([h EXCEPT ![i].root = i, ![i].end = NoneRef], i)

SplitRootAfterStr(s, i) == SplitRootParts(s.heap, i, SplitMax(s.val, ":", 1))

\* Namespace.split_root
Namespace_split_root(h, i) ==
    IF h[i].end # placeholder THEN ReturnRootEnd(h, i)
    ELSE SplitRootAfterStr(Namespace_str(h, i), i)

\* abs of a relative path: the object made of the current namespace cur and
\* the path s.  The object Namespace.current creates on the way is referenced
\* by nothing afterwards and is left out of the heap
AbsFrom(s, i, cur) ==
    IF cur = <<":">>
    THEN [heap |-> Append(s.heap, Namespace__init__(<<":">> \o s.val, Root, i, placeholder,
                                                    s.heap[i].name, -1)),
          val |-> Len(s.heap) + 1]
    ELSE [heap |-> Append(s.heap, Namespace__init__(cur \o <<":">> \o s.val, Root, placeholder,
                                                    placeholder, s.heap[i].name, -1)),
          val |-> Len(s.heap) + 1]

AbsAfterStr(s, i, cur) ==
    IF StartsWith(s.val, <<":">>) THEN [heap |-> s.heap, val |-> i]
    ELSE AbsFrom(s, i, cur)

\* Namespace.abs, with what currentNamespace() returns
Namespace_abs(h, i, cur) == AbsAfterStr(Namespace_str(h, i), i, cur)

\* __cmp__ once both names of an iteration are read
RECURSIVE CmpLoop(_, _, _)
RECURSIVE CmpNames(_, _, _, _)
CmpNames(n1, nb, A, B) ==
    IF StrLess(n1, nb.val) THEN [heap |-> nb.heap, val |-> -1, err |-> NoError]
    ELSE IF StrLess(nb.val, n1) THEN [heap |-> nb.heap, val |-> 1, err |-> NoError]
    ELSE IF A = NoneRef
    THEN [heap |-> nb.heap, val |-> IF B # NoneRef THEN -1 ELSE 0, err |-> NoError]
    ELSE IF B = NoneRef THEN [heap |-> nb.heap, val |-> 1, err |-> NoError]
    ELSE CmpLoop(nb.heap, A, B)

RECURSIVE CmpSecondName(_, _, _, _)
CmpSecondName(na, A, b, B) == CmpNames(na.val, Namespace_name(na.heap, b), A, B)

\* __cmp__ once both paths are split: reading the name of something that is
\* no Namespace raises AttributeError
RECURSIVE CmpSplit(_, _)
CmpSplit(a, rb) ==
    IF a[1] = placeholder \/ rb.val[1] = placeholder
    THEN [heap |-> rb.heap, val |-> 0, err |-> AttributeError]
    ELSE CmpSecondName(Namespace_name(rb.heap, a[1]), a[2], rb.val[1], rb.val[2])

RECURSIVE CmpFirstSplit(_, _)
CmpFirstSplit(ra, B) == CmpSplit(ra.val, Namespace_split_root(ra.heap, B))

CmpLoop(h, A, B) == CmpFirstSplit(Namespace_split_root(h, A), B)

\* Namespace.__cmp__
Namespace__cmp__(h, i, j) == CmpLoop(h, i, j)

EqAfterStr(si, sj) == [heap |-> sj.heap, val |-> si.val = sj.val]

EqSecondStr(si, j) == EqAfterStr(si, Namespace_str(si.heap, j))

\* Namespace.__eq__ of two Namespaces
Namespace__eq__(h, i, j) ==
    IF i = j THEN [heap |-> h, val |-> TRUE]
    ELSE EqSecondStr(Namespace_str(h, i), j)

----------------------------------------------------------------------------
(* The calls made on Namespace objects                                     *)

MaxCalls == 2

\* the strings Namespace(...) is called with
ObjStrings == {<<>>, <<":">>, <<"a">>, <<":","a">>, <<"a",":","b">>, <<":","a",":","b">>,
               <<"b">>, <<"a",":","a","b">>}

\* what currentNamespace() returns: the root in a fresh scene, or a namespace
\* that was made current
CurrentNamespaces == {<<":">>, <<":","n">>}

\* the object Namespace(s) returns and the heap holding it
Construct(h, s) ==
    IF Namespace(StrPart(s)).val = NamespaceRoot THEN [heap |-> h, val |-> Root]
    ELSE [heap |-> Append(h, NewObject(Namespace(StrPart(s)).val.ns)), val |-> Len(h) + 1]

\* MetaNamespace.current: a new object at every read
Namespace_current(h, cur) ==
    [heap |-> Append(h, Namespace__init__(cur, Root, placeholder, placeholder, placeholderStr, -1)),
     val |-> Len(h) + 1]

\* the Namespaces among the values a call returned
Returned(val) == {r \in val : r >= 1}

Out(op, target, other, val, err) ==
    [op |-> op, target |-> target, other |-> other, val |-> val, err |-> err]

\* no call made yet
NoOut == Out("none", NoneRef, NoneRef, NoneRef, NoError)

ObjInit ==
    /\ nsCurrent \in CurrentNamespaces
    /\ \E s \in ObjStrings :
          /\ nsHeap = Construct(<<RootObject>>, s).heap
          /\ nsHandles = {Root, Construct(<<RootObject>>, s).val}
    /\ nsOut = NoOut
    /\ nsCalls = 0

\* a call that returns one Namespace, or None
ReturnsRef(op, i, r) ==
    /\ nsHeap' = r.heap
    /\ nsHandles' = nsHandles \cup Returned({r.val})
    /\ nsOut' = Out(op, i, NoneRef, r.val, NoError)

\* a call that returns Namespaces (or None, or whatever a field holds) in a
\* tuple or a list
ReturnsRefs(op, i, r) ==
    /\ nsHeap' = r.heap
    /\ nsHandles' = nsHandles \cup Returned(Range(r.val))
    /\ nsOut' = Out(op, i, NoneRef, r.val, NoError)

\* a call that returns a string, a number or a boolean
ReturnsValue(op, i, j, r) ==
    /\ nsHeap' = r.heap
    /\ nsHandles' = nsHandles
    /\ nsOut' = Out(op, i, j, r.val, NoError)

Counted ==
    /\ nsCalls < MaxCalls
    /\ nsCalls' = nsCalls + 1
    /\ UNCHANGED nsCurrent

\* Namespace(s)
ObjCall(s) == Counted /\ ReturnsRef("Namespace", NoneRef, Construct(nsHeap, s))

\* Namespace.current
ObjCurrent == Counted /\ ReturnsRef("current", NoneRef, Namespace_current(nsHeap, nsCurrent))

\* n.str()
ObjStr(i) == Counted /\ ReturnsValue("str", i, NoneRef, Namespace_str(nsHeap, i))

\* hash(n): the hash of n.str(), given as that string
ObjHash(i) == Counted /\ ReturnsValue("hash", i, NoneRef, Namespace_str(nsHeap, i))

\* n.name
ObjName(i) == Counted /\ ReturnsValue("name", i, NoneRef, Namespace_name(nsHeap, i))

\* n.depth
ObjDepth(i) == Counted /\ ReturnsValue("depth", i, NoneRef, Namespace_depth(nsHeap, i))

\* n.parent
ObjParent(i) == Counted /\ ReturnsRef("parent", i, Namespace_parent(nsHeap, i))

\* n.abs()
ObjAbs(i) == Counted /\ ReturnsRef("abs", i, Namespace_abs(nsHeap, i, nsCurrent))

\* n.hierarchy()
ObjHierarchy(i) == Counted /\ ReturnsRefs("hierarchy", i, Namespace_hierarchy(nsHeap, i))

\* n.split()
ObjSplit(i) == Counted /\ ReturnsRefs("split", i, Namespace_split(nsHeap, i))

\* n.split_root()
ObjSplitRoot(i) == Counted /\ ReturnsRefs("split_root", i, Namespace_split_root(nsHeap, i))

\* n == m
ObjEq(i, j) == Counted /\ ReturnsValue("eq", i, j, Namespace__eq__(nsHeap, i, j))

CmpReturns(i, j, r) ==
    /\ nsHeap' = r.heap
    /\ nsHandles' = nsHandles
    /\ nsOut' = Out("cmp", i, j, r.val, r.err)

\* n.__cmp__(m), which n < m, n <= m, n > m and n >= m return the sign of
ObjCmp(i, j) == Counted /\ CmpReturns(i, j, Namespace__cmp__(nsHeap, i, j))

ObjNext ==
    \/ \E s \in ObjStrings : ObjCall(s)
    \/ ObjCurrent
    \/ \E i \in nsHandles :
          \/ ObjStr(i)
          \/ ObjHash(i)
          \/ ObjName(i)
          \/ ObjDepth(i)
          \/ ObjParent(i)
          \/ ObjAbs(i)
          \/ ObjHierarchy(i)
          \/ ObjSplit(i)
          \/ ObjSplitRoot(i)
          \/ \E j \in nsHandles : ObjEq(i, j) \/ ObjCmp(i, j)

----------------------------------------------------------------------------
(* Namespace(x), Namespace.join(...) and is_valid() of what Namespace(x)   *)
(* returned                                                                *)

MaxNsLen == 4

NsChars == {":", "a", "1", "_"}

\* the strings Namespace(...) is called with before is_valid()
CallStrings == UNION {[1..n -> NsChars] : n \in 0..MaxNsLen}

CallInit ==
    /\ nsArgs \in UNION {[1..n -> NsParts] : n \in 0..MaxParts} \cup {<<StrPart(s)>> : s \in CallStrings}
    /\ nsRet = NotRun
    /\ nsHeap = <<RootObject>>
    /\ nsCurrent = <<":">>
    /\ nsHandles = {}
    /\ nsOut = NoOut
    /\ nsCalls = 0

\* the heap and the reference of what Namespace(arg) returned without error:
\* a Namespace passed as argument is an object that exists already
Constructed(h, arg) ==
    IF arg.kind = "str" THEN Construct(h, arg.s)
    ELSE [heap |-> Append(h, NewObject(arg.s)), val |-> Len(h) + 1]

\* Namespace(x) of the one argument x
CallNamespace ==
    /\ Len(nsArgs) = 1
    /\ nsOut = NoOut
    /\ \E r \in {Namespace(nsArgs[1])} :
          /\ nsOut' = Out("Namespace", NoneRef, NoneRef, r.val, r.err)
          /\ nsHeap' = IF r.err = NoError THEN Constructed(nsHeap, nsArgs[1]).heap ELSE nsHeap
          /\ nsHandles' = IF r.err = NoError THEN {Constructed(nsHeap, nsArgs[1]).val} ELSE {}
    /\ UNCHANGED <<nsArgs, nsRet, nsCurrent, nsCalls>>

\* n.is_valid() of the Namespace n that Namespace(x) returned
CallIsValid ==
    /\ nsOut.op = "Namespace"
    /\ \E i \in nsHandles : \E r \in {is_valid(nsHeap, i)} :
          /\ nsOut' = Out("is_valid", i, NoneRef, r.val, NoError)
          /\ nsHeap' = r.heap
    /\ UNCHANGED <<nsArgs, nsRet, nsCurrent, nsHandles, nsCalls>>

\* the heap and the reference of what join returned without error: either
\* Namespace.root or the object _new_ns made
Joined(h, r) ==
    IF r.val = NamespaceRoot THEN [heap |-> h, val |-> Root]
    ELSE [heap |-> Append(h, NewObject(r.val.ns)), val |-> Len(h) + 1]

\* Namespace.join(*nsArgs)
CallJoin ==
    /\ NsJoin
    /\ \E r \in {join(nsArgs)} :
          /\ nsHeap' = IF r.err = NoError THEN Joined(nsHeap, r).heap ELSE nsHeap
          /\ nsHandles' = IF r.err = NoError THEN nsHandles \cup {Joined(nsHeap, r).val} ELSE nsHandles
    /\ UNCHANGED <<nsCurrent, nsOut, nsCalls>>

\* n.parent of the Namespace n that join returned
CallParent ==
    /\ nsRet # NotRun
    /\ nsOut = NoOut
    /\ \E i \in nsHandles : \E r \in {Namespace_parent(nsHeap, i)} :
          /\ nsOut' = Out("parent", i, NoneRef, r.val, NoError)
          /\ nsHeap' = r.heap
    /\ UNCHANGED <<nsArgs, nsRet, nsCurrent, nsHandles, nsCalls>>

CallNext == CallNamespace \/ CallIsValid \/ CallJoin \/ CallParent

----------------------------------------------------------------------------
(* scripts/pyphil/name.py: Name objects.  A Name is a record of the fields *)
(* __init__ sets, held in a heap and referred to by its index; a Namespace *)
(* is given by the string its str() returns (Namespace.root by "") and a   *)
(* NameComposition by the string its name() returns.                       *)

_unsplit == 0

_parentSplit == 1

_decomposed == 2

\* Name.world, the first object of the heap
World == 1

worldStr == <<"<", "w", "o", "r", "l", "d", ">">>

\* the marker _none, here of the field _end that is not computed yet
_none == -1

Name__init__(nm, state, root, parent, short, namespace, base, depth) ==
    [name |-> nm, state |-> state, root |-> root, parent |-> parent, short |-> short,
     namespace |-> namespace, base |-> base, depth |-> depth, end |-> _none]

\* Name(name): every other field at its default
NameOfString(nm) == Name__init__(nm, _unsplit, NoneRef, NoneRef, None, None, None, -1)

\* Name(name, depth=depth)
NameAtDepth(nm, depth) == Name__init__(nm, _unsplit, NoneRef, NoneRef, None, None, None, depth)

\* Name.world = Name("<world>")
WorldObject == NameOfString(worldStr)

\* arguments: not passed (_none), None, a string, a Name of the heap, a
\* NameComposition, or a value of another type
Unpassed == [kind |-> "_none"]

NoneArg == [kind |-> "None"]

StrArg(s) == [kind |-> "str", s |-> s]

NameArg(r) == [kind |-> "Name", ref |-> r]

CompositionArg(s) == [kind |-> "NameComposition", s |-> s]

OtherArg == [kind |-> "int"]

\* what a call on Names returns: the heap afterwards, the value and the error
Ret(h, val, err) == [heap |-> h, val |-> val, err |-> err]

\* Name.parent once parts = self._name.rsplit("|", 1) is known, given as the
\* text before the last '|', that '|' (or nothing) and the text after it
NameParentFrom(h, i, parts) ==
    IF parts[2] = <<>>
    THEN Ret([h EXCEPT ![i].short = parts[3], ![i].state = _parentSplit], h[i].parent, NoError)
    ELSE IF parts[1] = <<>>
    THEN Ret([h EXCEPT ![i].parent = World, ![i].short = parts[3], ![i].state = _parentSplit],
             World, NoError)
    ELSE Ret(Append([h EXCEPT ![i].parent = Len(h) + 1, ![i].short = parts[3],
                                ![i].state = _parentSplit],
                    Name__init__(parts[1], _unsplit, h[i].root, NoneRef, None, None, None,
                                 h[i].depth - 1)),
             Len(h) + 1, NoError)

\* Name.parent
Name_parent(h, i) ==
    IF h[i].state < _parentSplit THEN NameParentFrom(h, i, RPartition(h[i].name, "|"))
    ELSE Ret(h, h[i].parent, NoError)

\* Name.namespace once parts = self._short.rsplit(":", 1) is known
NamespaceFrom(h, i, parts) ==
    Ret([h EXCEPT ![i].namespace = IF parts[2] = <<>> THEN <<>> ELSE parts[1],
                  ![i].base = parts[3],
                  ![i].state = _decomposed],
        IF parts[2] = <<>> THEN <<>> ELSE parts[1], NoError)

NamespaceAfterParent(p, i) == NamespaceFrom(p.heap, i, RPartition(p.heap[i].short, ":"))

\* Name.namespace
Name_namespace(h, i) ==
    IF h[i].state < _decomposed THEN NamespaceAfterParent(Name_parent(h, i), i)
    ELSE Ret(h, h[i].namespace, NoError)

BaseAfterNamespace(r, i) == Ret(r.heap, r.heap[i].base, NoError)

\* Name.base
Name_base(h, i) ==
    IF h[i].state < _decomposed THEN BaseAfterNamespace(Name_namespace(h, i), i)
    ELSE Ret(h, h[i].base, NoError)

ShortAfterParent(p, i) == Ret(p.heap, p.heap[i].short, NoError)

SetShort(h, i, short) == Ret([h EXCEPT ![i].short = short], short, NoError)

ShortAfterNamespace(ns, i) ==
    IF ns.val = <<>> THEN SetShort(ns.heap, i, ns.heap[i].base)
    ELSE SetShort(ns.heap, i, ns.val \o <<":">> \o ns.heap[i].base)

\* Name.short()
Name_short(h, i) ==
    IF h[i].short # None THEN Ret(h, h[i].short, NoError)
    ELSE IF h[i].state < _parentSplit THEN ShortAfterParent(Name_parent(h, i), i)
    ELSE ShortAfterNamespace(Name_namespace(h, i), i)

SetName(h, i, nm) == Ret([h EXCEPT ![i].name = nm], nm, NoError)

\* Name.str once the string of the parent is known
StrWithParentStr(ps, i, nm) ==
    IF ps.val = worldStr THEN SetName(ps.heap, i, <<"|">> \o nm)
    ELSE SetName(ps.heap, i, ps.val \o <<"|">> \o nm)

\* Name.str
RECURSIVE Name_str(_, _)
StrWithParent(p, i, nm) ==
    IF p.val = NoneRef THEN SetName(p.heap, i, nm)
    ELSE IF p.val = World THEN SetName(p.heap, i, <<"|">> \o nm)
    ELSE StrWithParentStr(Name_str(p.heap, p.val), i, nm)

StrAfterShort(s, i) == StrWithParent(Name_parent(s.heap, i), i, s.val)

Name_str(h, i) ==
    IF h[i].name # None THEN Ret(h, h[i].name, NoError)
    ELSE StrAfterShort(Name_short(h, i), i)

SetNameDepth(h, i, d) == Ret([h EXCEPT ![i].depth = d], d, NoError)

NameDepthAfterParent(p, i) == SetNameDepth(p.heap, i, p.val + 1)

\* Name.depth
RECURSIVE Name_depth(_, _)
Name_depth(h, i) ==
    IF h[i].depth >= 0 THEN Ret(h, h[i].depth, NoError)
    ELSE IF h[i].name # None THEN SetNameDepth(h, i, Count(h[i].name, "|"))
    ELSE IF h[i].parent = NoneRef THEN SetNameDepth(h, i, 0)
    ELSE NameDepthAfterParent(Name_depth(h, h[i].parent), i)

\* Name(Name.sanitize(name)) once sanitize has returned or raised
NameOfSanitized(h, r) ==
    IF r.err # NoError THEN Ret(h, NoneRef, r.err)
    ELSE Ret(Append(h, NameOfString(r.val)), Len(h) + 1, NoError)

\* Name.of
Name_of(h, arg) ==
    IF arg.kind = "Name" THEN Ret(h, arg.ref, NoError)
    ELSE IF arg.kind = "str" THEN NameOfSanitized(h, sanitize(arg.s))
    ELSE IF arg.kind = "NameComposition"
    THEN Ret(Append(h, Name__init__(None, _decomposed, NoneRef, NoneRef, None, <<>>, arg.s, 0)),
             Len(h) + 1, NoError)
    ELSE Ret(h, NoneRef, ValueError)

\* a part that is "<world>" counts at index 0 (i = 1) only
CountsWorld(i) == i = 1

\* the body of the loop of join once the string n of part i is known
RECURSIVE NameJoinLoop(_, _, _, _, _)
JoinPart(h, names, i, ls, worldRoot, n) ==
    IF n = worldStr THEN NameJoinLoop(h, names, i + 1, ls, worldRoot \/ CountsWorld(i))
    ELSE IF ~StartsWith(n, <<"|">>)
    THEN NameJoinLoop(h, names, i + 1, ls \o << <<"|">>, n >>, worldRoot)
    ELSE NameJoinLoop(h, names, i + 1, Append(ls, n), worldRoot)

JoinSanitized(h, names, i, ls, worldRoot, r) ==
    IF r.err # NoError THEN [heap |-> h, err |-> r.err, ls |-> ls, worldRoot |-> worldRoot]
    ELSE JoinPart(h, names, i, ls, worldRoot, r.val)

JoinNameStr(names, i, ls, worldRoot, s) == JoinPart(s.heap, names, i, ls, worldRoot, s.val)

\* the loop of Name.join from part i on
NameJoinLoop(h, names, i, ls, worldRoot) ==
    IF i > Len(names) THEN [heap |-> h, err |-> NoError, ls |-> ls, worldRoot |-> worldRoot]
    ELSE IF names[i].kind = "str"
    THEN JoinSanitized(h, names, i, ls, worldRoot, sanitize(names[i].s))
    ELSE IF names[i].kind = "Name"
    THEN JoinNameStr(names, i, ls, worldRoot, Name_str(h, names[i].ref))
    ELSE IF names[i].kind = "NameComposition"
    THEN JoinPart(h, names, i, ls, worldRoot, names[i].s)
    ELSE [heap |-> h, err |-> ValueError, ls |-> ls, worldRoot |-> worldRoot]

\* Name.join after its loop
JoinAfterLoop(r) ==
    IF r.err # NoError THEN Ret(r.heap, NoneRef, r.err)
    ELSE IF Len(r.ls) = 0 THEN Ret(r.heap, World, NoError)
    ELSE IF r.ls[1] = <<"|">> /\ ~r.worldRoot
    THEN Ret(Append(r.heap, NameOfString(Concat(Tail(r.ls)))), Len(r.heap) + 1, NoError)
    ELSE Ret(Append(r.heap, NameOfString(Concat(r.ls))), Len(r.heap) + 1, NoError)

\* Name.join
Name_join(h, names) ==
    IF Len(names) = 0 THEN Ret(h, NoneRef, ValueError)
    ELSE JoinAfterLoop(NameJoinLoop(h, names, 1, <<>>, FALSE))

\* splitRoot, lines 785-789: the root of a path whose first part is r
SetNameRoot(h, i, r) ==
    IF h[i].root # NoneRef THEN h
    ELSE IF r = <<>> THEN [h EXCEPT ![i].root = World]
    ELSE Append([h EXCEPT ![i].root = Len(h) + 1], NameAtDepth(r, 0))

SetNameEnd(h, i, e) ==
    Append([h EXCEPT ![i].end = Len(h) + 1], NameAtDepth(e, h[i].depth - 1))

ReturnNameRootEnd(h, i) == Ret(h, <<h[i].root, h[i].end>>, NoError)

\* splitRoot once parts = self.str().split("|", 1) is known
NameSplitRootParts(h, i, parts) ==
    IF Len(parts) = 2
    THEN ReturnNameRootEnd(SetNameEnd(SetNameRoot(h, i, parts[1]), i, parts[2]), i)
    ELSE ReturnNameRootEnd([h EXCEPT ![i].root = i, ![i].end = NoneRef], i)

\* the split at the last '|' instead of the first
NameSplitRootAfterStr_Last(s, i) ==
    IF Contains(s.val, "|")
    THEN NameSplitRootParts(s.heap, i, <<RPartition(s.val, "|")[1], RPartition(s.val, "|")[3]>>)
    ELSE NameSplitRootParts(s.heap, i, <<s.val>>)

\* the test without the Name the caller holds
IsFullAfterStr_Never(s) == Ret(s.heap, FALSE, NoError)

NameSplitRootAfterStr(s, i) == NameSplitRootParts(s.heap, i, SplitMax(s.val, "|", 1))

\* Name.splitRoot
Name_splitRoot(h, i) ==
    IF h[i].end # _none THEN ReturnNameRootEnd(h, i)
    ELSE NameSplitRootAfterStr(Name_str(h, i), i)

SetRootField(h, i, r) == Ret([h EXCEPT ![i].root = r], r, NoError)

RootAfterParentRoot(pr, i) == SetRootField(pr.heap, i, pr.val)

RootAfterSplitRoot(sr, i) == Ret(sr.heap, sr.heap[i].root, NoError)

\* Name.root
RECURSIVE Name_root(_, _)
Name_root(h, i) ==
    IF h[i].root # NoneRef THEN Ret(h, h[i].root, NoError)
    ELSE IF h[i].state >= _parentSplit
    THEN IF h[i].parent = NoneRef THEN SetRootField(h, i, i)
         ELSE RootAfterParentRoot(Name_root(h, h[i].parent), i)
    ELSE RootAfterSplitRoot(Name_splitRoot(h, i), i)

NameEqAfterStr(s, t) == Ret(t.heap, s.val = t.val, NoError)

NameEqSecondStr(s, j) == NameEqAfterStr(s, Name_str(s.heap, j))

\* Name.__eq__ of two Names
Name__eq__(h, i, j) ==
    IF i = j THEN Ret(h, TRUE, NoError)
    ELSE NameEqSecondStr(Name_str(h, i), j)

RelativeAfterEq(eq, sr, i) == Ret(eq.heap, IF eq.val THEN sr.val[2] ELSE i, NoError)

RelativeAfterSplitRoot(sr, i) == RelativeAfterEq(Name__eq__(sr.heap, sr.val[1], World), sr, i)

\* Name.relative
Name_relative(h, i) == RelativeAfterSplitRoot(Name_splitRoot(h, i), i)

IsFullAfterStr(s) == Ret(s.heap, StartsWith(s.val, <<"|">>), NoError)

\* Name.isFull
Name_isFull(h, i) == IsFullAfterStr(Name_str(h, i))

\* Namespace.of(namespace) of name.py: the string of the Namespace returned
NamespaceOf(h, namespace) ==
    IF namespace.kind = "Namespace" THEN Ret(h, namespace.s, NoError)
    ELSE IF namespace.kind = "None" THEN Ret(h, <<>>, NoError)
    ELSE IF namespace.kind # "str" THEN Ret(h, NoneRef, ValueError)
    ELSE Ret(h, namespace.s, NoError)

\* the Name returned without the namespace
ReplaceFinish_RootNamespace(ns, parent, base, depth) ==
    IF ns.err # NoError THEN Ret(ns.heap, NoneRef, ns.err)
    ELSE Ret(Append(ns.heap, Name__init__(None, _decomposed, NoneRef, parent, None, <<>>, base, depth)),
             Len(ns.heap) + 1, NoError)

\* replace, line 740: the Name returned, once the namespace is known
ReplaceFinish(ns, parent, base, depth) ==
    IF ns.err # NoError THEN Ret(ns.heap, NoneRef, ns.err)
    ELSE Ret(Append(ns.heap, Name__init__(None, _decomposed, NoneRef, parent, None, ns.val, base, depth)),
             Len(ns.heap) + 1, NoError)

\* replace, lines 734-738, once the parent is known
ReplaceWithParent(p, i, namespace, base, depth) ==
    IF p.err # NoError THEN Ret(p.heap, NoneRef, p.err)
    ELSE IF namespace.kind = "_none"
    THEN ReplaceFinish(Name_namespace(p.heap, i), p.val, base, depth)
    ELSE ReplaceFinish(NamespaceOf(p.heap, namespace), p.val, base, depth)

\* replace, lines 726-732, once the base is known
ReplaceWithBase(b, i, parent, namespace) ==
    IF parent.kind = "_none"
    THEN ReplaceWithParent(Name_parent(b.heap, i), i, namespace, b.val, b.heap[i].depth)
    ELSE IF parent.kind = "None"
    THEN ReplaceWithParent(Ret(b.heap, NoneRef, NoError), i, namespace, b.val, -1)
    ELSE ReplaceWithParent(Name_of(b.heap, parent), i, namespace, b.val, -1)

\* replace, lines 701-717: whether the base passed is rejected
BaseRejected(base, components) ==
    \/ components
    \/ base.kind = "None"
    \/ /\ base.kind = "str"
       /\ (Contains(base.s, "|") \/ Contains(base.s, ":") \/ base.s = <<>>)
    \/ base.kind \notin {"None", "str", "NameComposition"}

\* replace, lines 696-699, once the parent is known
ReplaceShortUnder(p, short) ==
    IF p.val = NoneRef THEN Name_of(p.heap, short)
    ELSE Name_join(p.heap, <<NameArg(p.val), short>>)

\* Name.replace.  components tells whether naming convention components are
\* passed; they are only ever passed together with short or base
Name_replace(h, i, parent, short, namespace, base, components) ==
    IF short.kind # "_none"
    THEN IF namespace.kind # "_none" \/ base.kind # "_none" \/ components \/ short.kind = "None"
         THEN Ret(h, NoneRef, ValueError)
         ELSE IF parent.kind = "_none" THEN ReplaceShortUnder(Name_parent(h, i), short)
         ELSE IF parent.kind = "None" THEN Name_of(h, short)
         ELSE Name_join(h, <<parent, short>>)
    ELSE IF base.kind # "_none"
    THEN IF BaseRejected(base, components) THEN Ret(h, NoneRef, ValueError)
         ELSE ReplaceWithBase(Ret(h, base.s, NoError), i, parent, namespace)
    ELSE IF h[i].base # None THEN ReplaceWithBase(Ret(h, h[i].base, NoError), i, parent, namespace)
    ELSE ReplaceWithBase(Name_base(h, i), i, parent, namespace)

\* build, lines 196-199: None becomes _none for short and base only
OrUnpassed(arg) == IF arg.kind = "None" THEN Unpassed ELSE arg

\* Name.build with short or base, or with nothing at all; an argument that
\* is not passed is None
Name_build(h, parent, short, namespace, base, components) ==
    IF short.kind # "None" \/ base.kind # "None"
    THEN Name_replace(Append(h, NameOfString(None)), Len(h) + 1, parent, OrUnpassed(short),
                      namespace, OrUnpassed(base), components)
    ELSE Ret(h, NoneRef, ValueError)

----------------------------------------------------------------------------
(* Calls of Name.join and Name.build                                       *)

MaxNames == 3

\* the Names that exist before the call: Name.world, the Name
\* Name.build(base="a") returns and the one Name.join(Name.world, it) returns
NamesBefore ==
    <<WorldObject,
      Name__init__(None, _decomposed, NoneRef, NoneRef, None, <<>>, <<"a">>, -1),
      NameOfString(<<"|", "a">>)>>

NameParts ==
    {StrArg(<<"a">>), StrArg(<<"|", "b">>), StrArg(worldStr), StrArg(<<"a", "|">>),
     NameArg(1), NameArg(2), NameArg(3),
     CompositionArg(<<"c">>), CompositionArg(worldStr), OtherArg}

JoinCalls == {[op |-> "join", names |-> ns] : ns \in UNION {[1..n -> NameParts] : n \in 0..MaxNames}}

BuildCalls ==
    {[op |-> "build", parent |-> p, short |-> s, namespace |-> n, base |-> b, components |-> FALSE] :
        p \in {NoneArg, StrArg(<<"g">>), NameArg(2)},
        s \in {NoneArg, StrArg(<<"a">>), StrArg(<<"n", ":", "a">>), NameArg(2)},
        n \in {NoneArg, StrArg(<<"n">>)},
        b \in {NoneArg, StrArg(<<"b">>), StrArg(<<"a", "|", "b">>)}}
    \cup
    {[op |-> "build", parent |-> NoneArg, short |-> sb[1], namespace |-> NoneArg, base |-> sb[2],
      components |-> TRUE] :
        sb \in {<<StrArg(<<"a">>), NoneArg>>, <<NoneArg, StrArg(<<"b">>)>>,
                <<StrArg(<<"a">>), StrArg(<<"b">>)>>}}

NameOut(op, target, arg, r, before, prev) ==
    [op |-> op, target |-> target, arg |-> arg, val |-> r.val, err |-> r.err,
     before |-> before, prev |-> prev]

NoPrev == [op |-> "none", target |-> NoneRef, arg |-> None, val |-> NoneRef, before |-> None]

NoNameOut == NameOut("none", NoneRef, None, Ret(<<>>, NoneRef, NoError), None, NoPrev)

NameCallInit ==
    /\ nameArg \in JoinCalls \cup BuildCalls
    /\ nameRet = NotRun
    /\ nameHeap = NamesBefore
    /\ nameHandles = {}
    /\ nameOut = NoNameOut
    /\ nameCalls = 0

\* Name.join(*names)
NameJoin ==
    /\ nameArg.op = "join"
    /\ nameOut = NoNameOut
    /\ \E r \in {Name_join(nameHeap, nameArg.names)} :
          /\ nameHeap' = r.heap
          /\ nameOut' = NameOut("join", NoneRef, None, r, None, NoPrev)
    /\ UNCHANGED <<nameArg, nameRet, nameHandles, nameCalls>>

\* Name.build(parent, short, namespace, base, **components)
NameBuild ==
    /\ nameArg.op = "build"
    /\ nameOut = NoNameOut
    /\ \E r \in {Name_build(nameHeap, nameArg.parent, nameArg.short, nameArg.namespace,
                            nameArg.base, nameArg.components)} :
          /\ nameHeap' = r.heap
          /\ nameOut' = NameOut("build", NoneRef, None, r, None, NoPrev)
    /\ UNCHANGED <<nameArg, nameRet, nameHandles, nameCalls>>

NameCallNext == NameJoin \/ NameBuild

----------------------------------------------------------------------------
(* Calls on Name objects                                                   *)

MaxNameCalls == 3

\* the heaps the calls start from: Name.world and a Name n, the last object,
\* as Name.join returns it (only _name set; Name.of returns it with the empty
\* string) or as Name.build returns it (state _decomposed, with its parent
\* before it)
NameHeaps ==
    {<<WorldObject, NameOfString(s)>> :
        s \in {<<>>, <<"a">>, <<"|", "a">>, <<"g", "|", "n", ":", "a">>, <<"n", ":", "m", ":", "a">>}}
    \cup
    {<<WorldObject, Name__init__(None, _decomposed, NoneRef, p, None, ns, <<"a">>, -1)>> :
        p \in {NoneRef, World}, ns \in {<<>>, <<"n">>}}
    \cup
    {<<WorldObject, NameOfString(<<"g", "|", "h">>),
       Name__init__(None, _decomposed, NoneRef, 2, None, ns, <<"a">>, -1)>> : ns \in {<<>>, <<"n">>}}

\* the bases passed to replace: two that are accepted and an empty one
Bases == {<<"x">>, <<"y">>, <<>>}

NameObjInit ==
    /\ nameArg = <<>>
    /\ nameRet = NotRun
    /\ nameHeap \in NameHeaps
    /\ nameHandles = {Len(nameHeap)}
    /\ nameOut = NoNameOut
    /\ nameCalls = 0

\* the last call without the one before it
Last == [op |-> nameOut.op, target |-> nameOut.target, arg |-> nameOut.arg,
         val |-> nameOut.val, before |-> nameOut.before]

\* a call on the Name i: r is what it returns
NameCalled(op, i, arg, r) ==
    /\ nameCalls < MaxNameCalls
    /\ nameCalls' = nameCalls + 1
    /\ nameHeap' = r.heap
    /\ nameHandles' = IF op = "replace" /\ r.err = NoError THEN nameHandles \cup {r.val}
                      ELSE nameHandles
    /\ nameOut' = NameOut(op, i, arg, r, Name_str(nameHeap, i).val, Last)
    /\ UNCHANGED <<nameArg, nameRet>>

\* n.parent()
NameParent(i) == NameCalled("parent", i, None, Name_parent(nameHeap, i))

\* n.namespace()
NameNamespace(i) == NameCalled("namespace", i, None, Name_namespace(nameHeap, i))

\* n.base()
NameBase(i) == NameCalled("base", i, None, Name_base(nameHeap, i))

\* n.short()
NameShort(i) == NameCalled("short", i, None, Name_short(nameHeap, i))

\* n.str()
NameStr(i) == NameCalled("str", i, None, Name_str(nameHeap, i))

\* n.depth()
NameDepth(i) == NameCalled("depth", i, None, Name_depth(nameHeap, i))

\* n.replace(base=b)
NameReplace(i, b) ==
    NameCalled("replace", i, b,
               Name_replace(nameHeap, i, Unpassed, Unpassed, Unpassed, StrArg(b), FALSE))

NameObjNext ==
    \E i \in nameHandles :
        \/ NameParent(i)
        \/ NameNamespace(i)
        \/ NameBase(i)
        \/ NameShort(i)
        \/ NameStr(i)
        \/ NameDepth(i)
        \/ \E b \in Bases : NameReplace(i, b)

----------------------------------------------------------------------------
(* Name.root, Name.relative, Name.splitRoot, Name.isFull                   *)

\* the heaps the calls start from: those of the calls on Name objects, and
\* Name.world with longer paths as Name.join returns them
RootHeaps ==
    NameHeaps \cup
    {<<WorldObject, NameOfString(s)>> :
        s \in {<<"|", "a", "|", "b">>, <<"a", "|", "b">>, <<"|", "n", ":", "a", "|", "b", "|", "c">>,
               <<"a", "|", "b", "|", "c">>}}

NameRootInit ==
    /\ nameArg = <<>>
    /\ nameRet = NotRun
    /\ nameHeap \in RootHeaps
    /\ nameHandles = {World, Len(nameHeap)}
    /\ nameOut = NoNameOut
    /\ nameCalls = 0

\* n.root()
NameRoot(i) == NameCalled("root", i, None, Name_root(nameHeap, i))

\* n.relative()
NameRelative(i) == NameCalled("relative", i, None, Name_relative(nameHeap, i))

\* n.splitRoot()
NameSplitRoot(i) == NameCalled("splitRoot", i, None, Name_splitRoot(nameHeap, i))

\* n.isFull()
NameIsFull(i) == NameCalled("isFull", i, None, Name_isFull(nameHeap, i))

\* Name.join(r, e) of the Names r = n.root() and e = n.relative() that the
\* last two calls returned
NameJoinRootRelative ==
    /\ nameOut.op = "relative"
    /\ nameOut.prev.op = "root"
    /\ nameOut.prev.target = nameOut.target
    /\ nameOut.val # NoneRef
    /\ NameCalled("join", nameOut.target, None,
                  Name_join(nameHeap, <<NameArg(nameOut.prev.val), NameArg(nameOut.val)>>))

NameRootNext ==
    \/ \E i \in nameHandles :
          \/ NameRoot(i)
          \/ NameRelative(i)
          \/ NameSplitRoot(i)
          \/ NameIsFull(i)
          \/ NameStr(i)
          \/ NameParent(i)
    \/ NameJoinRootRelative

----------------------------------------------------------------------------
(* Specifications                                                          *)

\* the scope state machine
Init == ScopeInit /\ SBIdle /\ NsIdle /\ NameIdle /\ ObjIdle

Next == ScopeNext /\ UNCHANGED <<sbVars, nsVars, nameVars, objVars>>

Spec == Init /\ [][Next]_vars

\* the slot-based convention
InitNone == ScopeIdle /\ NoneInit /\ NsIdle /\ NameIdle /\ ObjIdle

NextNone == NoneNext /\ UNCHANGED <<scopeVars, nsVars, nameVars, objVars>>

SpecNone == InitNone /\ [][NextNone]_vars

InitSB == ScopeIdle /\ SBInit /\ NsIdle /\ NameIdle /\ ObjIdle

NextSB == SBNext /\ UNCHANGED <<scopeVars, nsVars, nameVars, objVars>>

SpecSB == InitSB /\ [][NextSB]_vars

\* Namespace.join
InitNs == ScopeIdle /\ SBIdle /\ NsInit /\ NameIdle /\ ObjIdle

NextNs == NsNext /\ UNCHANGED <<scopeVars, sbVars, nameVars, objVars>>

SpecNs == InitNs /\ [][NextNs]_vars

\* Name.of
InitName == ScopeIdle /\ SBIdle /\ NsIdle /\ NameInit /\ ObjIdle

NextName == NameNext /\ UNCHANGED <<scopeVars, sbVars, nsVars, objVars>>

SpecName == InitName /\ [][NextName]_vars

\* Namespace(x), join and is_valid
InitCall == ScopeIdle /\ SBIdle /\ CallInit /\ NameIdle

NextCall == CallNext /\ UNCHANGED <<scopeVars, sbVars, nameVars>>

SpecCall == InitCall /\ [][NextCall]_vars

\* Name.join and Name.build
InitNameCall == ScopeIdle /\ SBIdle /\ NsIdle /\ NameCallInit /\ ObjIdle

NextNameCall == NameCallNext /\ UNCHANGED <<scopeVars, sbVars, nsVars, objVars>>

SpecNameCall == InitNameCall /\ [][NextNameCall]_vars

\* calls on Name objects
InitNameObj == ScopeIdle /\ SBIdle /\ NsIdle /\ NameObjInit /\ ObjIdle

NextNameObj == NameObjNext /\ UNCHANGED <<scopeVars, sbVars, nsVars, objVars>>

SpecNameObj == InitNameObj /\ [][NextNameObj]_vars

\* root, relative, splitRoot and isFull of Name objects
InitNameRoot == ScopeIdle /\ SBIdle /\ NsIdle /\ NameRootInit /\ ObjIdle

NextNameRoot == NameRootNext /\ UNCHANGED <<scopeVars, sbVars, nsVars, objVars>>

SpecNameRoot == InitNameRoot /\ [][NextNameRoot]_vars

\* calls on Namespace objects
InitObj == ScopeIdle /\ SBIdle /\ NsIdle /\ NameIdle /\ ObjInit

NextObj == ObjNext /\ UNCHANGED <<scopeVars, sbVars, nsVars, nameVars>>

SpecObj == InitObj /\ [][NextObj]_vars

----------------------------------------------------------------------------
(* Claims about the naming-convention scope                                *)

\* the convention installed by the innermost scope still open
InnermostConvention == IF Len(openStack) = 0 THEN NoConvention ELSE scopeNc[Top]

\* C1: at every point of a well-nested sequence of enters and exits,
\* NamingConvention.get() is the convention of the innermost open scope,
\* NoConvention when none is open; an exit of the innermost scope is never
\* rejected, also when the body raised, and returns False so that the
\* exception is not suppressed.
C1_InnermostScopeIsActive ==
    wellNested =>
        /\ Get = InnermostConvention
        /\ lastCall.op = "exit" => lastCall.raised = "none" /\ lastCall.ret = "False"

\* C1 witness: an inner scope was left by an exception and the convention of
\* the enclosing scope, a different one, is active again
C1_Witness ==
    /\ wellNested
    /\ lastCall.op = "exit"
    /\ lastCall.exc = "RuntimeError"
    /\ Len(lastCall.preStack) = 2
    /\ Len(openStack) = 1
    /\ scopeNc[lastCall.scope] # scopeNc[Top]
    /\ Get = scopeNc[Top]

\* C2: in a well-nested history, exit(A) called while another scope B entered
\* after A is still open raises RuntimeError and restores nothing, whatever
\* conventions A and B install.
C2_OuterExitRaises ==
    ( /\ lastCall.op = "exit"
      /\ lastCall.preNested
      /\ \E i \in DOMAIN lastCall.preStack : lastCall.preStack[i] = lastCall.scope
      /\ lastCall.preStack[Len(lastCall.preStack)] # lastCall.scope )
    => /\ lastCall.raised = "RuntimeError"
       /\ current = lastCall.preCurrent

\* C27: when the same scope is entered a second time while it alone is open
\* and is then exited twice, the second exit succeeds and the active
\* convention after it equals the convention that was active before the
\* first enter.
C27_ReentrantScopeRestores ==
    [][(/\ lastCall.op = "exit"
        /\ lastCall.raised = "none"
        /\ lastCall.preStack = <<lastCall.scope, lastCall.scope>>
        /\ lastCall'.op = "exit"
        /\ lastCall'.scope = lastCall.scope
        /\ lastCall'.preStack = <<lastCall.scope>>)
       => /\ lastCall'.raised = "none"
          /\ current' = lastCall.outer]_vars

\* the convention active once the scopes of stk are exited innermost first,
\* or the error the first rejected exit raises
RECURSIVE Unwound(_, _, _, _)
Unwound(stk, cur, prev, nc) ==
    IF Len(stk) = 0 THEN cur
    ELSE IF cur # nc[stk[Len(stk)]] THEN "RuntimeError"
    ELSE Unwound(SubSeq(stk, 1, Len(stk) - 1), prev[stk[Len(stk)]], prev, nc)

\* C28: a rejected exit changes nothing: when __exit__ raises the RuntimeError
\* the active convention, the previous convention every scope recorded and the
\* open scopes are as before the call, and when the history was well nested
\* before it, exiting the open scopes innermost first still restores the
\* convention that was active before the outermost enter.
C28_RejectedExitChangesNothing ==
    [][(/\ lastCall'.op = "exit"
        /\ lastCall'.raised = "RuntimeError")
       => /\ current' = current
          /\ scopePrev' = scopePrev
          /\ scopeNc' = scopeNc
          /\ openStack' = openStack
          /\ wellNested => Unwound(openStack', current', scopePrev', scopeNc') = lastCall'.outer]_vars

\* C28 witness: with two scopes of different conventions open in a well-nested
\* history the exit of the outer one was rejected, and the convention of the
\* inner one is still active
C28_Witness ==
    /\ lastCall.op = "exit"
    /\ lastCall.raised = "RuntimeError"
    /\ lastCall.preNested
    /\ Len(openStack) = 2
    /\ openStack[1] = lastCall.scope
    /\ scopeNc[openStack[1]] # scopeNc[openStack[2]]
    /\ current = scopeNc[openStack[2]]
    /\ scopePrev[openStack[2]] = scopeNc[openStack[1]]
    /\ Unwound(openStack, current, scopePrev, scopeNc) = NoConvention

----------------------------------------------------------------------------
(* Claims about Namespace.join                                             *)

\* a part join accepts: a Namespace, or a string free of '|' and of empty names
ValidPart(p) ==
    \/ p.kind = "Namespace"
    \/ /\ p.kind = "str"
       /\ \A i \in DOMAIN p.s : p.s[i] # "|"
       /\ Len(p.s) > 1 => /\ p.s[Len(p.s)] # ":"
                          /\ \A i \in 1..(Len(p.s) - 1) : ~(p.s[i] = ":" /\ p.s[i + 1] = ":")

\* "", ":" or Namespace.root
IsRootPart(p) == p.s \in {<<>>, <<":">>}

WithoutLeadingColon(s) == IF s # <<>> /\ s[1] = ":" THEN Tail(s) ELSE s

NonRootParts(args) == SelectSeq(args, LAMBDA p : ~IsRootPart(p))

\* the non-root parts without their leading ':', one ':' between neighbours
JoinedBody(args) ==
    LET nr == NonRootParts(args)
    IN  JoinStr([i \in 1..Len(nr) |-> WithoutLeadingColon(nr[i].s)], <<":">>)

FirstIsAbsolute(args) == IsRootPart(args[1]) \/ args[1].s[1] = ":"

\* C3: for a non-empty tuple of valid parts, join returns the namespace whose
\* string is the non-root parts, each without its leading ':', joined by single
\* ':' and prefixed by ':' iff the first part is root or absolute; root parts
\* elsewhere are ignored; when every part is root the result is Namespace.root.
C3_JoinContract ==
    ( /\ nsRet # NotRun
      /\ Len(nsArgs) > 0
      /\ \A i \in DOMAIN nsArgs : ValidPart(nsArgs[i]) )
    => /\ nsRet.err = NoError
       /\ IF NonRootParts(nsArgs) = <<>>
          THEN nsRet.val = NamespaceRoot
          ELSE /\ ~nsRet.val.isRootObject
               /\ nsRet.val.ns = (IF FirstIsAbsolute(nsArgs) THEN <<":">> ELSE <<>>) \o JoinedBody(nsArgs)

\* C3 witness: "a:b", ":" and the Namespace ":b:c" were joined into the
\* relative namespace a:b:b:c
C3_Witness ==
    /\ nsRet # NotRun
    /\ nsArgs = <<StrPart(<<"a",":","b">>), StrPart(<<":">>), NsPart(<<":","b",":","c">>)>>
    /\ nsRet.err = NoError
    /\ nsRet.val.ns = <<"a",":","b",":","b",":","c">>

----------------------------------------------------------------------------
(* Claims about Name.of                                                    *)

\* no '|' or ':' is immediately followed by '|' or by the end of the string
NoEmptySegment(s) ==
    /\ s # <<>>
    /\ \A i \in DOMAIN s : s[i] \in {"|", ":"} => (i < Len(s) /\ s[i + 1] # "|")

\* a path segment without its superfluous root-namespace marker: a leading ':'
\* when the segment carries no other namespace qualifier
WithoutRootMarker(seg) ==
    IF seg # <<>> /\ seg[1] = ":" /\ ~Contains(Tail(seg), ":") THEN Tail(seg) ELSE seg

Sanitized(s) ==
    LET segs == Split(s, "|")
    IN  JoinStr([i \in 1..Len(segs) |-> WithoutRootMarker(segs[i])], <<"|">>)

\* C4: for every string s without empty path or base segment, Name.of(s).str()
\* is s with every superfluous root-namespace marker removed; a string without
\* such markers is returned unchanged.
C4_OfStrRemovesRootMarkers ==
    (nameRet # NotRun /\ NoEmptySegment(nameArg))
    => /\ nameRet.err = NoError
       /\ nameRet.val = Sanitized(nameArg)

----------------------------------------------------------------------------
(* Claims about Name.join, Name.build and Name.replace                     *)

\* the string of the Name r of the current heap
NameStrOf(r) == Name_str(nameHeap, r).val

\* a part Name.join and Name.of take: a Name, a NameComposition, or a string
\* without empty segment
GoodPart(p) ==
    \/ p.kind \in {"Name", "NameComposition"}
    \/ p.kind = "str" /\ NoEmptySegment(p.s)

\* the text a part stands for
PartText(p) ==
    IF p.kind = "Name" THEN NameStrOf(p.ref)
    ELSE IF p.kind = "str" THEN Sanitized(p.s)
    ELSE p.s

WithoutLeadingBar(txt) == IF StartsWith(txt, <<"|">>) THEN Tail(txt) ELSE txt

\* the texts other than "<world>" with exactly one '|' between adjacent ones,
\* beginning with '|' iff the first text is "<world>" or begins with '|'
JoinedText(texts) ==
    LET rest == SelectSeq(texts, LAMBDA x : x # worldStr)
    IN  (IF texts[1] = worldStr \/ StartsWith(texts[1], <<"|">>) THEN <<"|">> ELSE <<>>)
           \o JoinStr([k \in DOMAIN rest |-> WithoutLeadingBar(rest[k])], <<"|">>)

PartTexts(parts) == [k \in DOMAIN parts |-> PartText(parts[k])]

\* C18: Name.join of zero parts raises ValueError; of parts that are all
\* "<world>" it returns Name.world; of other parts it returns the Name whose
\* string is the parts other than "<world>" joined with exactly one '|',
\* beginning with '|' iff the first part is "<world>" or begins with '|'.
C18_NameJoinContract ==
    nameOut.op = "join" =>
        IF Len(nameArg.names) = 0 THEN nameOut.err = ValueError
        ELSE (\A k \in DOMAIN nameArg.names : GoodPart(nameArg.names[k])) =>
                /\ nameOut.err = NoError
                /\ IF \A k \in DOMAIN nameArg.names : PartText(nameArg.names[k]) = worldStr
                   THEN nameOut.val = World
                   ELSE NameStrOf(nameOut.val) = JoinedText(PartTexts(nameArg.names))

\* C19: Name.build with short, and optionally parent, but without namespace,
\* base and components returns the Name of parent joined with short, or
\* Name.of(short) without parent; with short, ValueError is raised exactly
\* when namespace, base or components are passed too.
C19_BuildFromShort ==
    (/\ nameOut.op = "build"
     /\ nameArg.short.kind # "None"
     /\ GoodPart(nameArg.short)
     /\ nameArg.parent.kind # "None" => GoodPart(nameArg.parent))
    => IF nameArg.namespace.kind # "None" \/ nameArg.base.kind # "None" \/ nameArg.components
       THEN nameOut.err = ValueError
       ELSE /\ nameOut.err = NoError
            /\ NameStrOf(nameOut.val) =
                  IF nameArg.parent.kind = "None" THEN PartText(nameArg.short)
                  ELSE JoinedText(<<PartText(nameArg.parent), PartText(nameArg.short)>>)

\* the string of the parent of the Name r, or None
ParentStrOf(r) ==
    IF Name_parent(nameHeap, r).val = NoneRef THEN None
    ELSE Name_str(Name_parent(nameHeap, r).heap, Name_parent(nameHeap, r).val).val

\* n.replace(base=b).str()
ReplacedStr(n, b) ==
    Name_str(Name_replace(nameHeap, n, Unpassed, Unpassed, Unpassed, StrArg(b), FALSE).heap,
             Name_replace(nameHeap, n, Unpassed, Unpassed, Unpassed, StrArg(b), FALSE).val).val

\* C20: for non-empty bases X and Y free of '|' and ':', the Name
\* n.replace(base=X).replace(base=Y) has base Y, the parent and the namespace
\* of n, and equals n.replace(base=Y), whichever fields of n were computed
\* before; n still has the string it had.
C20_ReplaceBaseTwice ==
    (/\ nameOut.op = "replace"
     /\ nameOut.prev.op = "replace"
     /\ nameOut.target = nameOut.prev.val
     /\ nameOut.arg # <<>>)
    => /\ nameOut.err = NoError
       /\ Name_base(nameHeap, nameOut.val).val = nameOut.arg
       /\ ParentStrOf(nameOut.val) = ParentStrOf(nameOut.prev.target)
       /\ Name_namespace(nameHeap, nameOut.val).val = Name_namespace(nameHeap, nameOut.prev.target).val
       /\ NameStrOf(nameOut.val) = ReplacedStr(nameOut.prev.target, nameOut.arg)
       /\ NameStrOf(nameOut.prev.target) = nameOut.prev.before

\* C20 witness: the Name "g|h|n:a" built from components, after a call of
\* one of its methods, had its base replaced by "x" and then by "y"
C20_Witness ==
    /\ nameOut.op = "replace"
    /\ nameOut.prev.op = "replace"
    /\ nameOut.target = nameOut.prev.val
    /\ nameOut.prev.arg = <<"x">>
    /\ nameOut.arg = <<"y">>
    /\ nameCalls = 3
    /\ nameOut.prev.before = <<"g", "|", "h", "|", "n", ":", "a">>
    /\ NameStrOf(nameOut.val) = <<"g", "|", "h", "|", "n", ":", "y">>

\* C21 as stated: for every Name n whose relative() is not None, rooted at
\* the world or not, Name.join(n.root(), n.relative()).str() == n.str().
C21_JoinRootRelative ==
    nameOut.op = "join" =>
        /\ nameOut.err = NoError
        /\ NameStrOf(nameOut.val) = NameStrOf(nameOut.target)

\* C21: for every Name n rooted at the world whose relative() is not None,
\* Name.join(n.root(), n.relative()).str() == n.str(); for a Name n that is
\* not rooted at the world relative() is n itself and the join is the string
\* of n.root(), a '|' and n.str().
C21_JoinRootRelativeOfFullPath ==
    nameOut.op = "join" =>
        /\ nameOut.err = NoError
        /\ NameStrOf(nameOut.val) =
              IF Name_isFull(nameHeap, nameOut.target).val THEN NameStrOf(nameOut.target)
              ELSE NameStrOf(Name_root(nameHeap, nameOut.target).val) \o <<"|">>
                      \o NameStrOf(nameOut.target)

\* C21 witness: the root and the relative path of "|a|b" were joined to "|a|b"
C21_Witness ==
    /\ nameOut.op = "join"
    /\ NameStrOf(nameOut.target) = <<"|", "a", "|", "b">>
    /\ nameOut.prev.op = "relative"
    /\ NameStrOf(nameOut.prev.val) = <<"a", "|", "b">>
    /\ NameStrOf(nameOut.val) = <<"|", "a", "|", "b">>

\* C22 as stated: isFull() is True iff the string of the Name begins with
\* '|' or the Name is Name.world.
C22_IsFullOrWorld ==
    nameOut.op = "isFull" =>
        (nameOut.val <=> \/ StartsWith(NameStrOf(nameOut.target), <<"|">>)
                         \/ NameStrOf(nameOut.target) = worldStr)

\* C22: isFull() is True iff the string of the Name begins with '|'; it is
\* False for Name.world, which is no DAG path.
C22_IsFullIffLeadingBar ==
    nameOut.op = "isFull" =>
        /\ nameOut.val <=> StartsWith(NameStrOf(nameOut.target), <<"|">>)
        /\ nameOut.target = World => ~nameOut.val

\* C22 witness: isFull() was called on Name.world and returned False
C22_Witness ==
    /\ nameOut.op = "isFull"
    /\ nameOut.target = World
    /\ NameStrOf(nameOut.target) = worldStr
    /\ nameOut.val = FALSE

----------------------------------------------------------------------------
(* Claims about Namespace objects                                          *)

\* the string of the Namespace r of the current heap
StrOf(r) == Namespace_str(nsHeap, r).val

\* the names of a namespace path from the root down, the root namespace
\* counting as the empty name
NsSegments(s) == IF s = <<":">> THEN << <<>> >> ELSE Split(s, ":")

\* the comparison of two lists of names, name by name: -1, 0 or 1
RECURSIVE SegCmp(_, _)
SegCmp(xs, ys) ==
    IF xs = <<>> THEN (IF ys = <<>> THEN 0 ELSE -1)
    ELSE IF ys = <<>> THEN 1
    ELSE IF StrLess(xs[1], ys[1]) THEN -1
    ELSE IF StrLess(ys[1], xs[1]) THEN 1
    ELSE SegCmp(Tail(xs), Tail(ys))

\* what a.__cmp__(b) gives in the current state
CmpOf(a, b) == Namespace__cmp__(nsHeap, a, b)

\* C11: the ordering of Namespaces is a strict total order consistent with
\* equality, whatever call returned the Namespaces: a.__cmp__(b) returns -1, 0
\* or 1, it is 0 iff a.str() == b.str(), it is -b.__cmp__(a), it is
\* transitive, and it compares name by name from the root down, a namespace
\* being less than its extensions.
C11_StrictTotalOrder ==
    nsOut.op = "cmp" =>
        /\ nsOut.err = NoError
        /\ nsOut.val = SegCmp(NsSegments(StrOf(nsOut.target)), NsSegments(StrOf(nsOut.other)))
        /\ (nsOut.val = 0) <=> (StrOf(nsOut.target) = StrOf(nsOut.other))
        /\ \A a, b \in nsHandles : CmpOf(a, b).err = NoError /\ CmpOf(a, b).val = -CmpOf(b, a).val
        /\ \A c \in nsHandles :
              (nsOut.val < 0 /\ CmpOf(nsOut.other, c).val < 0) => CmpOf(nsOut.target, c).val < 0

\* the names of the path s, after one leading ':' if there is one
NamesOf(s) == Split(IF StartsWith(s, <<":">>) THEN Tail(s) ELSE s, ":")

\* [A-Za-z][A-Za-z0-9_]*
IsNamespaceName(seg) ==
    /\ seg # <<>>
    /\ seg[1] \in LetterSet
    /\ \A k \in 2..Len(seg) : seg[k] \in LetterSet \cup DigitSet \cup {"_"}

\* C12: is_valid() is True iff the path is the root ":" or, after an optional
\* single leading ':', every name between ':' matches [A-Za-z][A-Za-z0-9_]*,
\* for absolute and relative paths alike.
C12_IsValidContract ==
    nsOut.op = "is_valid" =>
        (nsOut.val <=> \/ nsHeap[nsOut.target].ns = <<":">>
                       \/ \A k \in DOMAIN NamesOf(nsHeap[nsOut.target].ns) :
                             IsNamespaceName(NamesOf(nsHeap[nsOut.target].ns)[k]))

\* an argument Namespace(...) and join reject
BadArgument(p) ==
    \/ p.kind \notin {"str", "Namespace"}
    \/ /\ p.kind = "str"
       /\ \/ \E k \in DOMAIN p.s : p.s[k] = "|"
          \/ \E k \in 1..(Len(p.s) - 1) : p.s[k] = ":" /\ p.s[k + 1] = ":"
          \/ Len(p.s) > 1 /\ p.s[Len(p.s)] = ":"

\* C13: Namespace(s) and Namespace.join(...) raise ValueError exactly when a
\* string argument contains '|' or '::' or is longer than one character and
\* ends with ':', when an argument is neither a string nor a Namespace, or
\* when join gets no argument; then no Namespace is returned.  Otherwise a
\* Namespace is returned: the root for "" and ":", n itself for a Namespace n.
C13_ValueErrorExactly ==
    /\ nsOut.op = "Namespace" =>
          IF BadArgument(nsArgs[1])
          THEN nsOut.err = ValueError /\ nsHandles = {}
          ELSE /\ nsOut.err = NoError
               /\ nsHandles # {}
               /\ nsArgs[1].kind = "Namespace" => nsOut.val = nsArgs[1]
               /\ nsArgs[1].kind = "str" =>
                     nsOut.val.ns = IF nsArgs[1].s = <<>> THEN <<":">> ELSE nsArgs[1].s
    /\ nsRet # NotRun =>
          IF Len(nsArgs) = 0 \/ \E k \in DOMAIN nsArgs : BadArgument(nsArgs[k])
          THEN nsRet.err = ValueError
          ELSE nsRet.err = NoError /\ Len(nsRet.val.ns) > 0

\* C13 witness: Namespace("a:") raised ValueError, and so did the join of a
\* valid string with a value that is neither a string nor a Namespace
C13_Witness ==
    \/ /\ nsOut.op = "Namespace"
       /\ nsArgs = <<StrPart(<<"a", ":">>)>>
       /\ nsOut.err = ValueError
    \/ /\ nsRet # NotRun
       /\ nsArgs = <<StrPart(<<"a">>), OtherPart>>
       /\ nsRet.err = ValueError

\* a part of one name, with or without a leading ':'
SingleSegment(p) ==
    /\ ~BadArgument(p)
    /\ Len(NamesOf(p.s)) = 1
    /\ NamesOf(p.s)[1] # <<>>

\* Namespace.join(*args).str(), for arguments join accepts
JoinStrOf(args) ==
    Namespace_str(Joined(<<RootObject>>, join(args)).heap, Joined(<<RootObject>>, join(args)).val).val

\* C14: for valid parts a and b and a part c of a single name, with or
\* without a leading ':', join(a, b, c).parent.str() == join(a, b).str().
C14_ParentOfJoin ==
    (/\ nsOut.op = "parent"
     /\ Len(nsArgs) = 3
     /\ ~BadArgument(nsArgs[1])
     /\ ~BadArgument(nsArgs[2])
     /\ SingleSegment(nsArgs[3]))
    => /\ nsOut.val # NoneRef
       /\ StrOf(nsOut.val) = JoinStrOf(SubSeq(nsArgs, 1, 2))

\* C14 witness: the parent of join("a:b", ":b:c", ":a") was taken, and it is
\* a Namespace created by the parent property
C14_Witness ==
    /\ nsOut.op = "parent"
    /\ nsArgs = <<StrPart(<<"a", ":", "b">>), StrPart(<<":", "b", ":", "c">>), StrPart(<<":", "a">>)>>
    /\ nsOut.val > nsOut.target
    /\ StrOf(nsOut.val) = <<"a", ":", "b", ":", "b", ":", "c">>

\* C15: n.split_root() == (r, e): r is Namespace.root iff n is absolute; if
\* e is None then r == n; otherwise e is relative and join(r, e) == n; and a
\* repeated call returns the same.
C15_SplitRootContract ==
    nsOut.op = "split_root" =>
        /\ nsOut.val[1] >= 1
        /\ (nsOut.val[1] = Root) <=> StartsWith(StrOf(nsOut.target), <<":">>)
        /\ nsOut.val[2] = NoneRef => StrOf(nsOut.val[1]) = StrOf(nsOut.target)
        /\ nsOut.val[2] # NoneRef =>
              /\ ~StartsWith(StrOf(nsOut.val[2]), <<":">>)
              /\ JoinStrOf(<<NsPart(StrOf(nsOut.val[1])), NsPart(StrOf(nsOut.val[2]))>>)
                    = StrOf(nsOut.target)
        /\ Namespace_split_root(nsHeap, nsOut.target).val = nsOut.val

\* a canonical string that is not empty, holds no '|' and no '::' and does
\* not end with ':' unless it is ":"
WellFormedNs(s) ==
    /\ Len(s) > 0
    /\ ~Contains(s, "|")
    /\ \A k \in 1..(Len(s) - 1) : ~(s[k] = ":" /\ s[k + 1] = ":")
    /\ s[Len(s)] = ":" => s = <<":">>

\* C26: every Namespace obtained through the public operations from validated
\* strings has a canonical string that is non-empty, contains no '|', contains
\* no '::' and does not end with ':' unless it is exactly ":".
C26_WellFormedNamespaces ==
    \A i \in nsHandles : i >= 1 => WellFormedNs(StrOf(i))

\* C29: the root r = n.split_root()[0] is a Namespace, never the placeholder,
\* and r.split_root() == (r, None).
C29_RootSplitsIntoItself ==
    nsOut.op = "split_root" =>
        /\ nsOut.val[1] >= 1
        /\ nsOut.val[1] # placeholder
        /\ Namespace_split_root(nsHeap, nsOut.val[1]).val = <<nsOut.val[1], NoneRef>>

\* C16: every Namespace n with n.is_root(), however it was obtained, has
\* n.name == "", n.parent is None and n.depth == 0, and no Namespace that is
\* not root has an empty name.
C16_RootIsUnique ==
    /\ (nsOut.op = "parent" /\ is_root(nsHeap, nsOut.target)) => nsOut.val = NoneRef
    /\ (nsOut.op = "depth" /\ is_root(nsHeap, nsOut.target)) => nsOut.val = 0
    /\ nsOut.op = "name" => ((nsOut.val = <<>>) <=> is_root(nsHeap, nsOut.target))

\* what a caller sees of a returned reference: None, the string of a
\* Namespace, or the object that is no Namespace
Seen(h, r) ==
    IF r = NoneRef THEN None
    ELSE IF r = placeholder THEN placeholderStr
    ELSE Namespace_str(h, r).val

SeenAll(r) == [k \in DOMAIN r.val |-> Seen(r.heap, r.val[k])]

\* what the call op returns on the Namespace i of the heap h, as a caller
\* sees it
SeenOf(op, h, i, j, cur) ==
    CASE op \in {"str", "hash"} -> Namespace_str(h, i).val
      [] op = "name" -> Namespace_name(h, i).val
      [] op = "depth" -> Namespace_depth(h, i).val
      [] op = "parent" -> Seen(Namespace_parent(h, i).heap, Namespace_parent(h, i).val)
      [] op = "abs" -> Seen(Namespace_abs(h, i, cur).heap, Namespace_abs(h, i, cur).val)
      [] op = "hierarchy" -> SeenAll(Namespace_hierarchy(h, i))
      [] op = "split" -> SeenAll(Namespace_split(h, i))
      [] op = "split_root" -> SeenAll(Namespace_split_root(h, i))
      [] op = "eq" -> Namespace__eq__(h, i, j).val
      [] op = "cmp" -> <<Namespace__cmp__(h, i, j).err, Namespace__cmp__(h, i, j).val>>

\* what the last call returned, as the caller sees it
SeenOut ==
    CASE nsOut.op \in {"str", "hash", "name", "depth", "eq"} -> nsOut.val
      [] nsOut.op \in {"parent", "abs"} -> Seen(nsHeap, nsOut.val)
      [] nsOut.op \in {"hierarchy", "split", "split_root"} ->
            [k \in DOMAIN nsOut.val |-> Seen(nsHeap, nsOut.val[k])]
      [] nsOut.op = "cmp" -> <<nsOut.err, nsOut.val>>

\* C17: Namespaces are observationally immutable: after any calls, each of
\* str, hash, name, parent, depth, hierarchy, split, split_root, abs and the
\* comparisons returns on n a value equal to what it returns on a
\* Namespace newly constructed from n.str(), and n.str() is what it was.
C17_ObservationallyImmutable ==
    nsOut.op \in {"str", "hash", "name", "depth", "parent", "abs", "hierarchy", "split",
                  "split_root", "eq", "cmp"} =>
        SeenOut = SeenOf(nsOut.op, Construct(nsHeap, StrOf(nsOut.target)).heap,
                         Construct(nsHeap, StrOf(nsOut.target)).val, nsOut.other, nsCurrent)

----------------------------------------------------------------------------
(* Claims about SBConvention.compose                                       *)

Required(c) == c.side # None /\ c.module # None /\ c.basename # None /\ c.type # None

\* the stringified present slots joined with '_' in the order side, module,
\* basename, desc, type
SlotsJoined(c) ==
    JoinStr(<<PyStr(c.side), PyStr(c.module), PyStr(c.basename)>>
            \o (IF c.desc = None THEN <<>> ELSE <<PyStr(c.desc)>>)
            \o <<PyStr(c.type)>>, <<"_">>)

----------------------------------------------------------------------------
(* Claims about the decomposition of a string                              *)

\* the known types that contain '_'
MultiWordTypes == {t \in types : Contains(t, "_")}

\* the multi-word types that end s, in any letter case, as the whole of s or
\* right after a '_'
MultiWordSuffixes(s) ==
    {t \in MultiWordTypes :
        /\ EndsWith(Lower(s), Lower(t))
        /\ Len(s) = Len(t) \/ s[Len(s) - Len(t)] = "_"}

\* the length of the type of s: that of the longest such type, otherwise that
\* of the text after the last '_'
TypeLen(s) ==
    IF MultiWordSuffixes(s) # {}
    THEN Len(CHOOSE t \in MultiWordSuffixes(s) : \A u \in MultiWordSuffixes(s) : Len(u) <= Len(t))
    ELSE Len(s) - RFind(s, "_")

TypeOf(s) == SubSeq(s, Len(s) - TypeLen(s) + 1, Len(s))

\* the '_'-separated segments of s that precede its type
SegmentsBeforeType(s) ==
    IF TypeLen(s) = Len(s) THEN <<>> ELSE Split(SubSeq(s, 1, Len(s) - TypeLen(s) - 1), "_")

\* the string an SBName in hand was made from
Decomposed == sbPc \in {"wrapped", "redecomposed"} /\ sbObj.decomposed

\* C6: with at least three segments before the type, the type is the longest
\* multi-word type (any letter case) ending the name after a '_', otherwise
\* the text after the last '_'; the first three segments are side, module and
\* basename and everything after the third delimiter is the description.
C6_FullDecomposition ==
    (Decomposed /\ Len(SegmentsBeforeType(sbObj.name)) >= 3) =>
        LET segs == SegmentsBeforeType(sbObj.name)
        IN  /\ sbObj.type = TypeOf(sbObj.name)
            /\ sbObj.side = segs[1]
            /\ sbObj.module = segs[2]
            /\ sbObj.basename = segs[3]
            /\ sbObj.desc = IF Len(segs) = 3 THEN None
                            ELSE JoinStr(SubSeq(segs, 4, Len(segs)), <<"_">>)
            /\ (sbRet.op = "getComponent" /\ sbRet.arg \in ComponentNames) =>
                   sbRet.val = _componentDispatch(sbObj, sbRet.arg)

\* C6 witness: r_arm_FIK_IK_ctrl has type IK_ctrl and no description
C6_Witness ==
    /\ Decomposed
    /\ sbObj.name = <<"r","_","a","r","m","_","F","I","K","_","I","K","_","c","t","r","l">>
    /\ sbObj.type = <<"I","K","_","c","t","r","l">>
    /\ sbObj.desc = None
    /\ sbRet.op = "getComponent"
    /\ sbRet.arg = "type"

\* the best-effort reading of the segments ws: a known side first, then a
\* known module, then the basename, then the description
GuessSide(ws) == IF Len(ws) > 0 /\ Lower(ws[1]) \in _sides THEN ws[1] ELSE None

AfterSide(ws) == IF GuessSide(ws) # None THEN Tail(ws) ELSE ws

GuessModule(ws) ==
    IF Len(AfterSide(ws)) > 0 /\ Lower(AfterSide(ws)[1]) \in _modules THEN AfterSide(ws)[1] ELSE None

AfterModule(ws) == IF GuessModule(ws) # None THEN Tail(AfterSide(ws)) ELSE AfterSide(ws)

GuessBasename(ws) == IF Len(AfterModule(ws)) > 0 THEN AfterModule(ws)[1] ELSE None

GuessDesc(ws) ==
    IF Len(AfterModule(ws)) > 1 THEN JoinStr(Tail(AfterModule(ws)), <<"_">>) ELSE None

\* the segments left to guess from: those before the type, and the type
\* itself when it is no known type
Guessable(s) ==
    IF Lower(TypeOf(s)) \in _types THEN SegmentsBeforeType(s)
    ELSE Append(SegmentsBeforeType(s), TypeOf(s))

\* C7: decomposition never raises, and with fewer than three segments before
\* the type it keeps the type only if it is a known type (any letter case),
\* takes the first segment as side only if it is a known side, the next as
\* module only if it is a known module, the next as basename and joins the
\* rest into the description.
C7_BestEffortDecomposition ==
    /\ (sbRet.op \in {"getComponent", "isValid"} /\ sbRet.arg # "unknown") => sbRet.err = NoError
    /\ (Decomposed /\ Len(SegmentsBeforeType(sbObj.name)) < 3) =>
           LET ws == Guessable(sbObj.name)
           IN  /\ sbObj.type = IF Lower(TypeOf(sbObj.name)) \in _types THEN TypeOf(sbObj.name) ELSE None
               /\ sbObj.side = GuessSide(ws)
               /\ sbObj.module = GuessModule(ws)
               /\ sbObj.basename = GuessBasename(ws)
               /\ sbObj.desc = GuessDesc(ws)

\* C7 witness: the bare segment r populates the side only
C7_Witness ==
    /\ Decomposed
    /\ sbObj.name = <<"r">>
    /\ sbObj.side = <<"r">>
    /\ sbObj.module = None /\ sbObj.basename = None /\ sbObj.desc = None /\ sbObj.type = None
    /\ sbRet.op = "getComponent"
    /\ sbRet.err = NoError

----------------------------------------------------------------------------
(* Claims about the round trips                                            *)

\* the components of a component set, stringified
Slots(c) == [side |-> c.side, module |-> c.module, basename |-> c.basename, desc |-> c.desc,
             type |-> c.type]

SlotsOf(obj) == [side |-> obj.side, module |-> obj.module, basename |-> obj.basename,
                 desc |-> obj.desc, type |-> obj.type]

\* a well-formed component set
WellFormed(c) ==
    /\ c.unsupported = <<>>
    /\ c.side \in sides
    /\ c.module \in modules
    /\ c.type \in types
    /\ c.basename # None /\ c.basename # <<>> /\ ~Contains(c.basename, "_")
    /\ c.desc = None \/ (c.desc # <<>> /\ c.desc[1] # "_" /\ c.desc[Len(c.desc)] # "_")

\* the last '_'-separated word of the text written before the type
WordBeforeType(c) ==
    LET before == IF c.desc = None THEN PyStr(c.basename) ELSE PyStr(c.desc)
    IN  SubSeq(before, RFind(before, "_") + 1, Len(before))

\* the word before the type and the type read together as a multi-word type
ReadsAsMultiWordType(c) ==
    Lower(WordBeforeType(c) \o <<"_">> \o PyStr(c.type)) \in {Lower(t) : t \in MultiWordTypes}

BasenameReadAsType(c) ==
    /\ c.desc = None
    /\ ~Contains(PyStr(c.side), "_") /\ ~Contains(PyStr(c.module), "_")
    /\ ~Contains(PyStr(c.basename), "_") /\ ~Contains(PyStr(c.type), "_")
    /\ ReadsAsMultiWordType(c)

----------------------------------------------------------------------------
(* Claims about SBName.isValid                                             *)

\* the node-name rule [a-zA-Z_][a-zA-Z_0-9]*
NodeName(s) ==
    /\ s # <<>>
    /\ ~IsDigit(s[1])
    /\ \A i \in DOMAIN s : IsLetter(s[i]) \/ IsDigit(s[i]) \/ s[i] = "_"

\* C10: isValid() is True iff name() is a node name, side, module and type
\* are exact members of sides, modules and types, the basename is present,
\* non-empty and free of '_', and the description is absent or non-empty
\* with no '_' at either end; it never raises.
C10_IsValidContract ==
    sbRet.op = "isValid" =>
        /\ sbRet.err = NoError
        /\ sbRet.val = <<"True">> <=>
               /\ NodeName(sbObj.name)
               /\ sbObj.side \in sides
               /\ sbObj.module \in modules
               /\ sbObj.type \in types
               /\ sbObj.basename # None /\ sbObj.basename # <<>> /\ ~Contains(sbObj.basename, "_")
               /\ \/ sbObj.desc = None
                  \/ sbObj.desc # <<>> /\ sbObj.desc[1] # "_" /\ sbObj.desc[Len(sbObj.desc)] # "_"

\* C10 witness: a composition with a description is found valid
C10_Witness ==
    /\ sbRet.op = "isValid"
    /\ sbRet.val = <<"True">>
    /\ sbObj.desc # None
    /\ sbObj.name # None

----------------------------------------------------------------------------
(* Claims about SBName.replace                                             *)

\* the slots of an SBName as its getters return them
GetterSlots(obj) == [k \in ComponentNames |-> getComponent(obj, k).val]

C24_ReplaceDescNoneRemoves ==
    (/\ sbRet.op = "replace"
     /\ sbInput.kind = "string"
     /\ sbRet.components = NoComponents
     /\ GetterSlots(sbRet.self)["desc"] # None) =>
        /\ sbRet.err = NoError
        /\ GetterSlots(sbRet.new)["desc"] = None
        /\ \A k \in ComponentNames \ {"desc"} : GetterSlots(sbRet.new)[k] = GetterSlots(sbRet.self)[k]

\* C30: the decomposition is lossless: for every string s,
\* SBName(s).replace().name() == s, on the fast path and on every branch of
\* the best-effort path.
C30_DecompositionLossless ==
    (/\ sbRet.op = "replace"
     /\ sbInput.kind = "string"
     /\ sbRet.components = NoComponents) =>
        /\ sbRet.err = NoError
        /\ sbRet.new.name = None
        /\ name(sbRet.new).val = sbInput.s

\* C30 witness: replace() of the SBName of "arm_FIK_FIK", decomposed on the
\* best-effort path into a module, a basename and a description
C30_Witness ==
    /\ sbRet.op = "replace"
    /\ sbRet.components = NoComponents
    /\ sbInput.s = <<"a", "r", "m", "_", "F", "I", "K", "_", "F", "I", "K">>
    /\ sbRet.new.side = None
    /\ sbRet.new.module = <<"a", "r", "m">>
    /\ sbRet.new.desc = <<"F", "I", "K">>
    /\ sbRet.new.type = None
    /\ name(sbRet.new).val = sbInput.s

----------------------------------------------------------------------------
(* Claims about the no-op convention                                       *)

\* C25: under the no-op convention every named component is unknown:
\* composition.getComponent(c) of a NoComposition fails with
\* UnknownComponentError naming the no-op convention and the component c,
\* and with no other kind of error.
C25_EveryComponentUnknown ==
    sbRet.op = "getComponent" =>
        /\ sbRet.err.type = "UnknownComponentError"
        /\ sbRet.err = UnknownComponentError(NoConvention, <<sbRet.arg>>)

====
